---------------------------- MODULE Spec2Model ----------------------------
(***************************************************************************)
(* A model of the signal pipeline of solana-radar-agent:                   *)
(*   - the collection orchestrator   (cron/scheduler.js, runCollection)    *)
(*   - the normalizer                (analysis/signals.js)                 *)
(*   - the scoring engine            (analysis/scoring.js)                 *)
(*   - the snapshot store            (storage/store.js)                    *)
(*   - the idea enricher             (analysis/build-ideas.js)             *)
(*   - runAnalysis, runFull and the trigger endpoints (server.js)          *)
(*   - the cron jobs                 (cron/scheduler.js, startCron)        *)
(*                                                                         *)
(* JavaScript strings are sequences of UTF-16 code units.  A JavaScript    *)
(* value is a record tagged with its type.  32-bit integers are kept as a  *)
(* pair of 16-bit limbs <<hi, lo>> so that the wrap-around of generateId   *)
(* is computed exactly.                                                    *)
(***************************************************************************)
EXTENDS Integers, Sequences, FiniteSets, TLC

(***************************************************************************)
(* JavaScript values                                                       *)
(***************************************************************************)

\* null and undefined: both falsy, both joined as the empty string
JNull == [t |-> "null"]

\* a string, as its sequence of UTF-16 code units
JStr(s) == [t |-> "string", v |-> s]

\* a number (integers only)
JNum(n) == [t |-> "number", v |-> n]

\* a string holding the ISO-8601 form of the instant n (what toISOString gives)
JIso(n) == [t |-> "iso", v |-> n]

\* a boolean
JBool(b) == [t |-> "boolean", v |-> b]

\* an object literal without properties
JObj == [t |-> "object"]

\* ToBoolean, as used by the || operator: arrays and objects are truthy
Truthy(x) ==
  CASE x.t = "null"    -> FALSE
    [] x.t = "string"  -> x.v # <<>>
    [] x.t = "number"  -> x.v # 0
    [] x.t = "boolean" -> x.v
    [] OTHER           -> TRUE

\* a || b
Or(a, b) == IF Truthy(a) THEN a ELSE b

\* the code units of some fixed strings
Bar == 124
s_sig == <<115, 105, 103, 95>>
s_github == <<103, 105, 116, 104, 117, 98>>
s_social == <<115, 111, 99, 105, 97, 108>>
s_kol == <<107, 111, 108>>
s_unknown == <<117, 110, 107, 110, 111, 119, 110>>
s_Untitled == <<85, 110, 116, 105, 116, 108, 101, 100>>
s_rising == <<114, 105, 115, 105, 110, 103>>
s_stable == <<115, 116, 97, 98, 108, 101>>
s_declining == <<100, 101, 99, 108, 105, 110, 105, 110, 103>>
s_emerging == <<101, 109, 101, 114, 103, 105, 110, 103>>
s_accelerating == <<97, 99, 99, 101, 108, 101, 114, 97, 116, 105, 110, 103>>
s_maturing == <<109, 97, 116, 117, 114, 105, 110, 103>>
s_onchain == <<111, 110, 99, 104, 97, 105, 110>>
s_research == <<114, 101, 115, 101, 97, 114, 99, 104>>
s_defi == <<100, 101, 102, 105>>
s_nft == <<110, 102, 116>>
s_DeFi == <<68, 101, 70, 105>>

\* an array
JArr(s) == [t |-> "array", v |-> s]

\* x || []
OrEmpty(x) == IF Truthy(x) THEN x.v ELSE <<>>

\* String.prototype.toLowerCase on A-Z
ToLowerCase(s) == [i \in 1..Len(s) |-> IF s[i] \in 65..90 THEN s[i] + 32 ELSE s[i]]

\* String.prototype.substring(0, n)
Substring0(s, n) == IF Len(s) <= n THEN s ELSE SubSeq(s, 1, n)

\* Array.prototype.slice(0, end): a negative end counts from the end of the array
Slice0(s, end) ==
  LET to == IF end < 0 THEN (IF Len(s) + end < 0 THEN 0 ELSE Len(s) + end)
            ELSE (IF end > Len(s) THEN Len(s) ELSE end)
  IN  SubSeq(s, 1, to)

RECURSIVE ToString10(_)
\* Number.prototype.toString() of a natural number
ToString10(n) ==
  IF n < 10 THEN <<48 + n>> ELSE Append(ToString10(n \div 10), 48 + (n % 10))

s_true == <<116, 114, 117, 101>>
s_false == <<102, 97, 108, 115, 101>>
s_objectObject == <<91, 111, 98, 106, 101, 99, 116, 32, 79, 98, 106, 101, 99, 116, 93>>

RECURSIVE JoinComma(_)
\* Array.prototype.join(',') of an array of strings
JoinComma(a) ==
  IF a = <<>> THEN <<>>
  ELSE IF Len(a) = 1 THEN a[1]
  ELSE a[1] \o <<44>> \o JoinComma(Tail(a))

\* the text a value contributes to Array.prototype.join and to a template literal:
\* ToString of it, null and undefined giving the empty string
JoinText(x) ==
  CASE x.t = "string"  -> x.v
    [] x.t = "number"  -> ToString10(x.v)
    [] x.t = "boolean" -> IF x.v THEN s_true ELSE s_false
    [] x.t = "array"   -> JoinComma(x.v)
    [] x.t = "object"  -> s_objectObject
    [] OTHER           -> <<>>

(***************************************************************************)
(* analysis/signals.js: generateId                                         *)
(***************************************************************************)

Limb == 65536

\* hash = ((hash << 5) - hash) + char; hash |= 0     on limbs <<hi, lo>>
HashStep(h, c) ==
  LET lo1 == 31 * h[2] + c
      hi1 == 31 * h[1] + (lo1 \div Limb)
  IN  <<hi1 % Limb, lo1 % Limb>>

\* hash |= 0 leaves a 32-bit value: both limbs are below 2^16
IsInt32(h) == h[1] < Limb /\ h[2] < Limb

RECURSIVE HashRange(_, _, _, _)
\* the value of hash after the rounds i = lo .. hi of the loop of generateId, started
\* at h.  The rounds are taken in order; the range is halved, and the first half is
\* evaluated before the second is begun, to keep the evaluation shallow.
HashRange(h, str, lo, hi) ==
  IF lo > hi THEN h
  ELSE IF lo = hi THEN HashStep(h, str[lo])
  ELSE LET mid  == (lo + hi) \div 2
           left == HashRange(h, str, lo, mid)
       IN  IF IsInt32(left) THEN HashRange(left, str, mid + 1, hi) ELSE left

\* the loop of generateId: the int32 hash of str, as limbs
HashOf(str) == HashRange(<<0, 0>>, str, 1, Len(str))

\* Math.abs of the int32 held in the limbs (2^31 for -2^31)
AbsInt32(h) ==
  IF h[1] < 32768 THEN h
  ELSE <<(65535 - h[1] + (IF h[2] = 0 THEN 1 ELSE 0)) % Limb, (Limb - h[2]) % Limb>>

\* one base-36 digit as a code unit: 0-9, a-z
Digit36(d) == IF d < 10 THEN 48 + d ELSE 87 + d

RECURSIVE ToString36(_)
\* Number.prototype.toString(36) of the non-negative integer in the limbs
ToString36(n) ==
  LET qh  == n[1] \div 36
      mid == (n[1] % 36) * Limb + n[2]
      q   == <<qh, mid \div 36>>
      r   == mid % 36
  IN  IF q = <<0, 0>> THEN <<Digit36(r)>>
      ELSE Append(ToString36(q), Digit36(r))

\* IdKeyPart with the whole text in place of its first 50 characters
IdKeyPart_WholeText(raw) ==
  Or(Or(Or(raw.url, raw.name), raw.text), JStr(<<>>))

\* raw.url || raw.name || raw.text?.substring(0, 50) || ''
IdKeyPart(raw) ==
  LET prefix == IF raw.text.t = "string" THEN JStr(Substring0(raw.text.v, 50)) ELSE JNull
  IN  Or(Or(Or(raw.url, raw.name), prefix), JStr(<<>>))

\* parts.join('|')
IdString(raw) ==
  JoinText(Or(raw.source, JStr(<<>>))) \o <<Bar>> \o
  JoinText(Or(raw.subSource, JStr(<<>>))) \o <<Bar>> \o
  JoinText(IdKeyPart(raw))

generateId(raw) == s_sig \o ToString36(AbsInt32(HashOf(IdString(raw))))


(***************************************************************************)
(* analysis/signals.js: normalizeSignal, normalizeAll                      *)
(*                                                                         *)
(* A raw record has the fields the fall-back chains of normalizeSignal     *)
(* read.  The pass-through fields (engagement, marketCap, username,        *)
(* address, keyInsight, dataPoint) all follow the pattern of stars and     *)
(* ticker and are left out; sentiment and signalType play no part in the   *)
(* identity or the order of a signal and are left out too.  The topics of  *)
(* a raw record are an array of strings or absent.                         *)
(***************************************************************************)

s_UntitledSignal == s_Untitled \o <<32, 83, 105, 103, 110, 97, 108>>

IsSpace(c) == c \in {9, 10, 11, 12, 13, 32, 160}

RECURSIVE TrimLeft(_)
TrimLeft(s) == IF s # <<>> /\ IsSpace(Head(s)) THEN TrimLeft(Tail(s)) ELSE s

RECURSIVE TrimRight(_)
TrimRight(s) ==
  IF s # <<>> /\ IsSpace(s[Len(s)]) THEN TrimRight(SubSeq(s, 1, Len(s) - 1)) ELSE s

\* String.prototype.trim
Trim(s) == TrimRight(TrimLeft(s))

extractTitle(raw) ==
  IF Truthy(raw.name) THEN raw.name
  ELSE IF Truthy(raw.text) THEN JStr(Trim(Substring0(raw.text.v, 100)))
  ELSE IF Truthy(raw.ticker) THEN JStr(<<36>> \o JoinText(raw.ticker))
  ELSE JStr(s_UntitledSignal)

RECURSIVE CollapseSpaces(_)
\* String.prototype.replace(/\s+/g, '_')
CollapseSpaces(s) ==
  IF s = <<>> THEN <<>>
  ELSE IF IsSpace(Head(s)) THEN <<95>> \o CollapseSpaces(TrimLeft(Tail(s)))
  ELSE <<Head(s)>> \o CollapseSpaces(Tail(s))

RECURSIVE UniqueFrom(_, _, _)
\* [...new Set(s)]: the elements of s in the order of their first occurrence
UniqueFrom(acc, s, i) ==
  IF i > Len(s) THEN acc
  ELSE IF \E k \in 1..Len(acc) : acc[k] = s[i] THEN UniqueFrom(acc, s, i + 1)
  ELSE UniqueFrom(Append(acc, s[i]), s, i + 1)

\* dedupeTopics(raw.topics || [])
dedupeTopics(topics) ==
  IF topics.t # "array" THEN <<>>
  ELSE LET mapped     == [i \in 1..Len(topics.v) |->
                            CollapseSpaces(Trim(ToLowerCase(topics.v[i])))]
           normalized == SelectSeq(mapped, LAMBDA t : Len(t) > 0 /\ Len(t) < 50)
       IN  UniqueFrom(<<>>, normalized, 1)

\* now is the value of new Date().toISOString() at the call
normalizeSignal(raw, now) ==
  [ id          |-> generateId(raw),
    source      |-> Or(raw.source, JStr(s_unknown)),
    subSource   |-> Or(Or(raw.subSource, raw.sub_source), JStr(s_unknown)),
    title       |-> Or(Or(raw.name, raw.title), extractTitle(raw)),
    text        |-> Or(Or(raw.text, raw.description), JStr(<<>>)),
    url         |-> Or(Or(Or(raw.url, raw.news_url), raw.html_url), JNull),
    date        |-> Or(Or(Or(raw.date, raw.createdAt), raw.collectedAt), JIso(now)),
    collectedAt |-> Or(raw.collectedAt, JIso(now)),
    topics      |-> dedupeTopics(raw.topics),
    stars       |-> Or(raw.stars, JNull),
    ticker      |-> Or(raw.ticker, JNull) ]

\* whether x.substring is a function: of the JSON types only strings have it
HasSubstring(x) == x.t \in {"string", "iso"}

\* whether x.includes is a function: strings and arrays have it
HasIncludes(x) == x.t \in {"string", "iso", "array"}

\* generateId throws a TypeError: raw.text?.substring(0, 50) is evaluated when url and
\* name are falsy, and ?. guards against null and undefined only
generateIdThrows(raw) ==
  /\ ~Truthy(raw.url)
  /\ ~Truthy(raw.name)
  /\ raw.text.t # "null"
  /\ ~HasSubstring(raw.text)

\* extractTitle throws a TypeError: raw.text.substring(0, 100) on a truthy text
extractTitleThrows(raw) ==
  /\ ~Truthy(raw.name)
  /\ Truthy(raw.text)
  /\ ~HasSubstring(raw.text)

\* classifySignalType throws a TypeError: raw.subSource?.includes('pumpfun') is
\* evaluated when source is neither 'github' nor 'research'
classifySignalTypeThrows(raw) ==
  /\ raw.source # JStr(s_github)
  /\ raw.source # JStr(s_research)
  /\ raw.subSource.t # "null"
  /\ ~HasIncludes(raw.subSource)

\* normalizeSignal throws: generateId is always called, extractTitle when name and
\* title are falsy, classifySignalType when signalType is falsy
normalizeSignalThrows(raw) ==
  \/ generateIdThrows(raw)
  \/ (~Truthy(raw.name) /\ ~Truthy(raw.title) /\ extractTitleThrows(raw))
  \/ (~Truthy(raw.signalType) /\ classifySignalTypeThrows(raw))

TypeError == [threw |-> "TypeError"]

\* how a call normalizeSignal(raw) ends: with a TypeError or with the signal
Completion(raw, now) ==
  IF normalizeSignalThrows(raw) THEN TypeError
  ELSE [threw |-> "nothing", value |-> normalizeSignal(raw, now)]

\* new Date(x).getTime(): an instant, or NaN for what does not parse as a date
NaN == [t |-> "NaN"]
DateOf(x) == IF x.t = "iso" THEN JNum(x.v) ELSE NaN

\* (a, b) => new Date(b.date) - new Date(a.date), with the sign Array.prototype.sort
\* takes from it: a NaN result counts as 0
DateCompare(a, b) ==
  LET da == DateOf(a.date)
      db == DateOf(b.date)
  IN  IF da.t = "NaN" \/ db.t = "NaN" THEN 0 ELSE db.v - da.v

RECURSIVE InsertByDate(_, _)
\* x put into the sorted list s behind every element that does not sort after it
InsertByDate(s, x) ==
  IF s = <<>> THEN <<x>>
  ELSE IF DateCompare(s[Len(s)], x) <= 0 THEN Append(s, x)
  ELSE Append(InsertByDate(SubSeq(s, 1, Len(s) - 1), x), s[Len(s)])

RECURSIVE SortByDateFrom(_, _, _)
SortByDateFrom(acc, s, i) ==
  IF i > Len(s) THEN acc ELSE SortByDateFrom(InsertByDate(acc, s[i]), s, i + 1)

\* normalized.sort(...): Array.prototype.sort is stable
SortByDate(s) == SortByDateFrom(<<>>, s, 1)

RECURSIVE DedupFrom_NoSeen(_, _, _, _, _)
\* DedupFrom without the test on seen: every signal is pushed
DedupFrom_NoSeen(seen, acc, rawSignals, i, now) ==
  IF i > Len(rawSignals) THEN acc
  ELSE DedupFrom_NoSeen(seen, Append(acc, normalizeSignal(rawSignals[i], now)),
                        rawSignals, i + 1, now)

RECURSIVE DedupFrom_LastWins(_, _, _, _, _)
\* DedupFrom where a later record with a seen id takes the place of the earlier one
DedupFrom_LastWins(seen, acc, rawSignals, i, now) ==
  IF i > Len(rawSignals) THEN acc
  ELSE LET signal == normalizeSignal(rawSignals[i], now)
       IN  IF signal.id \notin seen
           THEN DedupFrom_LastWins(seen \cup {signal.id}, Append(acc, signal),
                                   rawSignals, i + 1, now)
           ELSE DedupFrom_LastWins(seen,
                  [k \in 1..Len(acc) |-> IF acc[k].id = signal.id THEN signal ELSE acc[k]],
                  rawSignals, i + 1, now)

RECURSIVE DedupFrom(_, _, _, _, _)
\* the for loop of normalizeAll: seen is the set of ids, acc the list pushed so far
DedupFrom(seen, acc, rawSignals, i, now) ==
  IF i > Len(rawSignals) THEN acc
  ELSE LET signal == normalizeSignal(rawSignals[i], now)
       IN  IF signal.id \notin seen
           THEN DedupFrom(seen \cup {signal.id}, Append(acc, signal), rawSignals, i + 1, now)
           ELSE DedupFrom(seen, acc, rawSignals, i + 1, now)

normalizeAll(rawSignals, now) == SortByDate(DedupFrom({}, <<>>, rawSignals, 1, now))


(***************************************************************************)
(* analysis/scoring.js: scoreNarratives                                    *)
(*                                                                         *)
(* A narrative is what the classifier returned: sources, evidence and      *)
(* topics are arrays or absent, velocity and stage are strings or absent,  *)
(* confidence is a number or absent.  A confidence is kept in hundredths   *)
(* (JNum(85) is 0.85), so that Math.round(confidence * 10) is exact.       *)
(***************************************************************************)

Min(a, b) == IF a <= b THEN a ELSE b

\* Math.round(c * 10) for c given in hundredths: half-way cases round up
RoundTimes10(hundredths) == (hundredths + 5) \div 10

\* the default narrative.confidence || 0.5, in hundredths
DefaultConfidence == 50

\* (narrative.confidence || 0.5), in hundredths
ConfidenceOr(narrative) ==
  IF Truthy(narrative.confidence) THEN narrative.confidence.v ELSE DefaultConfidence

\* MatchingSignals without the toLowerCase on either side
MatchingSignals_CaseSensitive(narrative, signals) ==
  LET narrativeTopics ==
        { OrEmpty(narrative.topics)[i] : i \in 1..Len(OrEmpty(narrative.topics)) }
  IN  SelectSeq(signals,
        LAMBDA sg : \E i \in 1..Len(sg.topics) : sg.topics[i] \in narrativeTopics)

\* signals.filter(s => s.topics.some(t => narrativeTopics.includes(t.toLowerCase())))
MatchingSignals(narrative, signals) ==
  LET narrativeTopics ==
        { ToLowerCase(OrEmpty(narrative.topics)[i]) :
            i \in 1..Len(OrEmpty(narrative.topics)) }
  IN  SelectSeq(signals,
        LAMBDA sg : \E i \in 1..Len(sg.topics) : ToLowerCase(sg.topics[i]) \in narrativeTopics)

\* the six sub-scores of one narrative
ScoresOf(narrative, signals) ==
  LET uniqueSources == { OrEmpty(narrative.sources)[i] :
                           i \in 1..Len(OrEmpty(narrative.sources)) }
      evidenceCount == Len(OrEmpty(narrative.evidence))
  IN  [ crossSource |-> Min(Cardinality(uniqueSources) * 8, 30),
        evidence    |-> Min(evidenceCount * 8, 25),
        velocity    |-> IF narrative.velocity = JStr(s_rising) THEN 20
                        ELSE IF narrative.velocity = JStr(s_stable) THEN 10
                        ELSE 5,
        stage       |-> IF narrative.stage = JStr(s_emerging) THEN 15
                        ELSE IF narrative.stage = JStr(s_accelerating) THEN 12
                        ELSE 5,
        confidence  |-> RoundTimes10(ConfidenceOr(narrative)),
        signalCount |-> Min(Len(MatchingSignals(narrative, signals)) \div 2, 10) ]

\* Object.values(scores).reduce((a, b) => a + b, 0)
TotalOf(scores) ==
  scores.crossSource + scores.evidence + scores.velocity + scores.stage
    + scores.confidence + scores.signalCount

\* the body of narratives.map(...): the narrative with its scores, rank still 0
ScoreOne(narrative, signals) ==
  LET scores == ScoresOf(narrative, signals)
  IN  [ narrative           |-> narrative,
        scores              |-> scores,
        totalScore          |-> TotalOf(scores),
        matchingSignalCount |-> Len(MatchingSignals(narrative, signals)),
        rank                |-> 0 ]

\* the comparison of an ascending sort
ScoreCompare_Ascending(a, b) == a.totalScore - b.totalScore

\* (a, b) => b.totalScore - a.totalScore
ScoreCompare(a, b) == b.totalScore - a.totalScore

RECURSIVE InsertByScore_TiesFirst(_, _)
\* InsertByScore of a sort that is not stable: x is put before the elements it ties with
InsertByScore_TiesFirst(s, x) ==
  IF s = <<>> THEN <<x>>
  ELSE IF ScoreCompare(s[Len(s)], x) < 0 THEN Append(s, x)
  ELSE Append(InsertByScore_TiesFirst(SubSeq(s, 1, Len(s) - 1), x), s[Len(s)])

RECURSIVE InsertByScore(_, _)
\* x put into the sorted list s behind every element that does not sort after it
InsertByScore(s, x) ==
  IF s = <<>> THEN <<x>>
  ELSE IF ScoreCompare(s[Len(s)], x) <= 0 THEN Append(s, x)
  ELSE Append(InsertByScore(SubSeq(s, 1, Len(s) - 1), x), s[Len(s)])

RECURSIVE SortByScoreFrom(_, _, _)
SortByScoreFrom(acc, s, i) ==
  IF i > Len(s) THEN acc ELSE SortByScoreFrom(InsertByScore(acc, s[i]), s, i + 1)

\* scored.sort(...): Array.prototype.sort is stable
SortByScore(s) == SortByScoreFrom(<<>>, s, 1)

\* scored.forEach((n, i) => { n.rank = i + 1; })
AssignRanks(s) == [i \in 1..Len(s) |-> [s[i] EXCEPT !.rank = i]]

scoreNarratives(narratives, signals) ==
  AssignRanks(SortByScore([i \in 1..Len(narratives) |-> ScoreOne(narratives[i], signals)]))

(***************************************************************************)
(* storage/store.js                                                        *)
(*                                                                         *)
(* The data directory is a function from file names to file contents.  A   *)
(* name is its kind ("signals" or "narratives") and either the time stamp  *)
(* of the snapshot or the mark of the latest alias; the stamp is the       *)
(* millisecond new Date() returned.  A content is a document as written by *)
(* JSON.stringify, or what a write that failed after opening the file left *)
(* behind, which JSON.parse rejects.                                       *)
(***************************************************************************)

Kinds == {"signals", "narratives"}

\* `${kind}_${timestamp}.json`
SnapshotName(kind, stamp) == [kind |-> kind, latest |-> FALSE, stamp |-> stamp]

\* `${kind}_latest.json`
LatestName(kind) == [kind |-> kind, latest |-> TRUE, stamp |-> 0]

\* the content JSON.stringify(data, null, 2) puts into a file
Written(data) == [ok |-> TRUE, data |-> data]

\* the content of a file that was opened for writing and not written to the end
Truncated == [ok |-> FALSE]

\* how a call of fs.writeFileSync can end: written; thrown before the file was
\* opened; thrown after the file was opened and truncated
WriteOutcomes == {"written", "not_opened", "truncated"}

\* WriteFileSync that leaves an existing file as it is
WriteFileSync_KeepExisting(dir, name, data, outcome) ==
  IF outcome = "not_opened" \/ name \in DOMAIN dir THEN dir
  ELSE [n \in DOMAIN dir \cup {name} |->
          IF n = name THEN (IF outcome = "written" THEN Written(data) ELSE Truncated)
          ELSE dir[n]]

\* the data directory after fs.writeFileSync(name, JSON.stringify(data)) ended in outcome
WriteFileSync(dir, name, data, outcome) ==
  IF outcome = "not_opened" THEN dir
  ELSE [n \in DOMAIN dir \cup {name} |->
          IF n = name THEN (IF outcome = "written" THEN Written(data) ELSE Truncated)
          ELSE dir[n]]

\* the object saveSignals builds: { timestamp, signalCount, ...meta, signals }
SignalsData(signals, meta, now) ==
  [ timestamp |-> now, signalCount |-> Len(signals), meta |-> meta, signals |-> signals ]

\* the object saveNarratives builds: { timestamp, narrativeCount, stats, narratives }
NarrativesData(narratives, stats, now) ==
  [ timestamp |-> now, narrativeCount |-> Len(narratives), stats |-> stats,
    narratives |-> narratives ]

\* what the load functions return when there is nothing to return
NoData == [absent |-> TRUE]

\* loadLatestSignals / loadLatestNarratives
loadLatest(dir, kind) ==
  IF LatestName(kind) \notin DOMAIN dir THEN NoData
  ELSE IF dir[LatestName(kind)].ok THEN dir[LatestName(kind)].data
  ELSE NoData

\* the names readdirSync gives, filtered by f.startsWith(kind + '_') && f !== latest
SnapshotNames(dir, kind) == { n \in DOMAIN dir : n.kind = kind /\ ~n.latest }

RECURSIVE NewestFirst_OldestFirst(_)
\* .sort() without .reverse(): the names in ascending order of their stamp
NewestFirst_OldestFirst(names) ==
  IF names = {} THEN <<>>
  ELSE LET oldest == CHOOSE n \in names : \A m \in names : n.stamp <= m.stamp
       IN  <<oldest>> \o NewestFirst_OldestFirst(names \ {oldest})

RECURSIVE NewestFirst(_)
\* .sort().reverse(): the time stamps have a fixed width, so the order of the names
\* is the order of the stamps
NewestFirst(names) ==
  IF names = {} THEN <<>>
  ELSE LET newest == CHOOSE n \in names : \A m \in names : m.stamp <= n.stamp
       IN  <<newest>> \o NewestFirst(names \ {newest})

\* loadSignalHistory / loadNarrativeHistory
loadHistory(dir, kind, limit) ==
  LET files  == Slice0(NewestFirst(SnapshotNames(dir, kind)), limit)
      parsed == [i \in 1..Len(files) |-> IF dir[files[i]].ok THEN dir[files[i]].data ELSE NoData]
  IN  SelectSeq(parsed, LAMBDA d : d # NoData)

(***************************************************************************)
(* analysis/signals.js: getSignalStats (without the topic counts)          *)
(***************************************************************************)

getSignalStats(signals) ==
  LET sources == { signals[i].source : i \in 1..Len(signals) }
  IN  [ total    |-> Len(signals),
        bySource |-> [src \in sources |->
                        Cardinality({ i \in 1..Len(signals) : signals[i].source = src })],
        dateRange |-> [ earliest |-> IF Len(signals) > 0 THEN signals[Len(signals)].date ELSE JNull,
                        latest   |-> IF Len(signals) > 0 THEN signals[1].date ELSE JNull ] ]

(***************************************************************************)
(* cron/scheduler.js: runCollection                                        *)
(***************************************************************************)

\* the four source adapters in the order of the array given to Promise.allSettled
AdapterOrder == <<"social", "onchain", "github", "research">>
Adapters == { AdapterOrder[i] : i \in 1..Len(AdapterOrder) }

\* dayRange = 14
DayRange == 14

\* Promise.all in place of Promise.allSettled: rejected with the first rejection
JoinState_FailFast(settled) ==
  IF \E a \in Adapters : settled[a].status = "rejected" THEN "rejected"
  ELSE IF \A a \in Adapters : settled[a].status = "fulfilled" THEN "resolved"
  ELSE "pending"

\* the state of the promise Promise.allSettled returned: it is resolved once every
\* adapter promise is settled, and it is never rejected
JoinState(settled) ==
  IF \A a \in Adapters : settled[a].status # "pending" THEN "resolved" ELSE "pending"

\* the array the join resolves with, in the order the adapters settled
JoinResults_InSettleOrder(settled, order) ==
  [i \in 1..Len(order) |-> settled[order[i]]]

\* the array Promise.allSettled resolves with: one result for each adapter, in the
\* order of the array it was given, whatever the order in which they settled
JoinResults(settled, order) ==
  [i \in 1..Len(AdapterOrder) |-> settled[AdapterOrder[i]]]

\* Accumulate without the block for the last adapter
Accumulate_ThreeBlocks(results) ==
  LET Push(acc, r) == IF r.status = "fulfilled" THEN acc \o r.value ELSE acc
  IN  Push(Push(Push(<<>>, results[1]), results[2]), results[3])

\* the four blocks  if (xResult.status === 'fulfilled') allRawSignals.push(...xResult.value);
\*                  else console.error(...)
Accumulate(results) ==
  LET Push(acc, r) == IF r.status = "fulfilled" THEN acc \o r.value ELSE acc
  IN  Push(Push(Push(Push(<<>>, results[1]), results[2]), results[3]), results[4])

(***************************************************************************)
(* The inputs of the normalizer                                            *)
(***************************************************************************)

\* the longest list of raw records given to normalizeAll
MaxRaws == 3

\* the instant new Date() returns during a normalization
NowT == 50

EmptyRaw ==
  [ source |-> JNull, subSource |-> JNull, sub_source |-> JNull, name |-> JNull,
    title |-> JNull, text |-> JNull, description |-> JNull, url |-> JNull,
    news_url |-> JNull, html_url |-> JNull, date |-> JNull, createdAt |-> JNull,
    collectedAt |-> JNull, topics |-> JNull, stars |-> JNull, ticker |-> JNull ]

\* fifty times the letter x
s_x50 == [i \in 1..50 |-> 120]
\* two texts that agree on their first 50 characters only
s_textA == s_x50 \o <<97>>
s_textB == s_x50 \o <<98>>
\* "o/r", a repository name and, as a url, the same characters
s_repo == <<111, 47, 114>>

\* the three ways a record carries its key: a url, a name, a text
KeyVariants ==
  { [EmptyRaw EXCEPT !.url = JStr(s_repo), !.text = JStr(s_textA)],
    [EmptyRaw EXCEPT !.text = JStr(s_textA)],
    [EmptyRaw EXCEPT !.text = JStr(s_textB)] }

\* "n/a", a date that new Date() does not parse
s_na == <<110, 47, 97>>

\* the fields that are not part of the key: stars and the date
Extras == { <<JNum(1), JIso(10)>>, <<JNum(2), JIso(20)>> }

RawPool ==
  { [k EXCEPT !.source = JStr(s_github), !.stars = e[1], !.date = e[2]] :
      k \in KeyVariants, e \in Extras }
  \cup
  { [EmptyRaw EXCEPT !.source = JStr(s_github), !.name = JStr(s_repo), !.stars = JNum(3)],
    [EmptyRaw EXCEPT !.source = JStr(s_social), !.subSource = JStr(s_kol),
                     !.name = JStr(s_repo), !.createdAt = JIso(30),
                     !.topics = JArr(<<s_DeFi, s_defi>>)],
    [EmptyRaw EXCEPT !.source = JStr(s_research), !.text = JStr(s_textA),
                     !.date = JStr(s_na), !.collectedAt = JIso(5)] }

RawLists == UNION { [1..n -> RawPool] : n \in 0..MaxRaws }

(***************************************************************************)
(* State                                                                   *)
(***************************************************************************)

VARIABLES
  nRaws,     \* normalizer: the list of raw records under test
  nIds,      \* normalizer: the id normalizeSignal gave record 1 and record 2
  nCalls,    \* normalizer: the order in which those two calls were made
  nRan,      \* normalizer: whether normalizeAll has been called
  nOut,      \* normalizer: what normalizeAll returned
  nRan2,     \* normalizer: whether normalizeAll has been called on its own output
  nOut2      \* normalizer: what that second call returned

normVars == <<nRaws, nIds, nCalls, nRan, nOut, nRan2, nOut2>>

VARIABLES
  sNarratives, \* scoring: the narratives given to scoreNarratives
  sSignals,    \* scoring: the signals given to scoreNarratives
  sRan,        \* scoring: whether scoreNarratives has been called
  sOut         \* scoring: what scoreNarratives returned

scoreVars == <<sNarratives, sSignals, sRan, sOut>>

VARIABLES
  dir,       \* store: the data directory
  clock,     \* store: the millisecond new Date() returns
  svPc,      \* store: where the running save is: "idle", "immutable", "latest"
  svKind,    \* store: the kind the running save writes
  svData,    \* store: the data object the running save writes
  svName,    \* store: the name of the snapshot file of the running save
  svLog      \* store: the calls of the save functions so far, with how they ended

storeVars == <<dir, clock, svPc, svKind, svData, svName, svLog>>

VARIABLES
  pc,           \* runCollection: "idle", "awaiting", "saving", "returned", "rejected"
  settled,      \* runCollection: for each adapter, the state of its promise
  settleOrder,  \* runCollection: the adapters in the order in which they settled
  allRawSignals,\* runCollection: the accumulation list
  ret,          \* runCollection: what the call returned
  failure       \* runCollection: what made the call reject: "none", "adapter", "storage"

runVars == <<pc, settled, settleOrder, allRawSignals, ret, failure>>

VARIABLES
  biPc,       \* generateBuildIdeas: "idle", "calling", "delay", "returned", "rejected"
  biIn,       \* generateBuildIdeas: the scored narratives it was given
  biEnriched, \* generateBuildIdeas: the list enriched
  biLog       \* generateBuildIdeas: how the idea call of each narrative ended

ideaVars == <<biPc, biIn, biEnriched, biLog>>

VARIABLES
  anPc,       \* runAnalysis: "idle", "clustering", "enriching", "saving", "returned", "rejected"
  anSignals,  \* runAnalysis: the signals it works on
  anCluster,  \* runAnalysis: how the call of the classifier ended
  anRet,      \* runAnalysis: what the call returned
  anFailure,  \* runAnalysis: what made the call reject: "none", "classifier", "storage"
  fullPc      \* runFull: "idle", "collecting", "analyzing", "returned", "rejected"

analysisVars == <<anPc, anSignals, anCluster, anRet, anFailure, fullPc>>

VARIABLES
  req,        \* API: the trigger endpoint that was called: "none", "collect", "analyze", "full-run"
  res,        \* API: the response of the endpoint
  startDir    \* API: the data directory when the endpoint was called

apiVars == <<req, res, startDir>>

VARIABLES
  jRaw,       \* normalizeSignal on JSON: the raw record under test
  jRan,       \* normalizeSignal on JSON: whether the call has been made
  jOut        \* normalizeSignal on JSON: how the call ended

jsonVars == <<jRaw, jRan, jOut>>

callVars == <<ideaVars, analysisVars, apiVars>>

VARIABLES
  collectionCron, \* scheduler: the handle of the collection job, or null
  analysisCron,   \* scheduler: the handle of the analysis job, or null
  scheduled,      \* node-cron: the tasks that are scheduled and not stopped
  cronLog         \* the calls of startCron and stopCron so far

cronVars == <<collectionCron, analysisCron, scheduled, cronLog>>

moreVars == <<jsonVars, cronVars>>

vars == <<normVars, scoreVars, storeVars, runVars, callVars, moreVars>>

NoId == <<>>

InitNormVars ==
  /\ nRaws = <<>>
  /\ nIds = <<NoId, NoId>>
  /\ nCalls = <<>>
  /\ nRan = FALSE
  /\ nOut = <<>>
  /\ nRan2 = FALSE
  /\ nOut2 = <<>>

InitScoreVars ==
  /\ sNarratives = <<>>
  /\ sSignals = <<>>
  /\ sRan = FALSE
  /\ sOut = <<>>

\* the data directory holds no file
EmptyDir == [n \in {} |-> Truncated]

InitStoreVars ==
  /\ dir = EmptyDir
  /\ clock = 1
  /\ svPc = "idle"
  /\ svKind = "signals"
  /\ svData = NoData
  /\ svName = LatestName("signals")
  /\ svLog = <<>>

NotCalled == [status |-> "pending", value |-> <<>>]

InitRunVars ==
  /\ pc = "idle"
  /\ settled = [a \in Adapters |-> NotCalled]
  /\ settleOrder = <<>>
  /\ allRawSignals = <<>>
  /\ ret = NoData
  /\ failure = "none"

InitIdeaVars ==
  /\ biPc = "idle"
  /\ biIn = <<>>
  /\ biEnriched = <<>>
  /\ biLog = <<>>

InitAnalysisVars ==
  /\ anPc = "idle"
  /\ anSignals = <<>>
  /\ anCluster = NoData
  /\ anRet = NoData
  /\ anFailure = "none"
  /\ fullPc = "idle"

InitApiVars ==
  /\ req = "none"
  /\ res = NoData
  /\ startDir = EmptyDir

InitJsonVars ==
  /\ jRaw = EmptyRaw
  /\ jRan = FALSE
  /\ jOut = NoData

InitCallVars ==
  /\ InitIdeaVars
  /\ InitAnalysisVars
  /\ InitApiVars

InitCronVars ==
  /\ collectionCron = JNull
  /\ analysisCron = JNull
  /\ scheduled = {}
  /\ cronLog = <<>>

InitMoreVars ==
  /\ InitJsonVars
  /\ InitCronVars

(***************************************************************************)
(* The normalizer as a state machine: pure functions applied to inputs     *)
(* drawn from RawLists                                                     *)
(***************************************************************************)

InitNorm ==
  /\ nRaws \in RawLists
  /\ nIds = <<NoId, NoId>>
  /\ nCalls = <<>>
  /\ nRan = FALSE
  /\ nOut = <<>>
  /\ nRan2 = FALSE
  /\ nOut2 = <<>>
  /\ InitScoreVars
  /\ InitStoreVars
  /\ InitRunVars
  /\ InitCallVars
  /\ InitMoreVars

\* one call normalizeSignal(nRaws[i]), for the first two records, in any order
NormalizeSignalCall(i) ==
  /\ i \in 1..2
  /\ i <= Len(nRaws)
  /\ nIds[i] = NoId
  /\ nIds' = [nIds EXCEPT ![i] = normalizeSignal(nRaws[i], NowT).id]
  /\ nCalls' = Append(nCalls, i)
  /\ UNCHANGED <<nRaws, nRan, nOut, nRan2, nOut2>>
  /\ UNCHANGED <<scoreVars, storeVars, runVars, callVars, moreVars>>

\* the call normalizeAll(nRaws)
NormalizeAllCall ==
  /\ ~nRan
  /\ nRan' = TRUE
  /\ nOut' = normalizeAll(nRaws, NowT)
  /\ UNCHANGED <<nRaws, nIds, nCalls, nRan2, nOut2>>
  /\ UNCHANGED <<scoreVars, storeVars, runVars, callVars, moreVars>>

\* a signal given to normalizeSignal as a raw record: the fields a signal has are
\* read as they are, every other field is undefined
RawOf(signal) ==
  [f \in DOMAIN EmptyRaw |->
     IF f \in DOMAIN signal
     THEN (IF f = "topics" THEN JArr(signal[f]) ELSE signal[f])
     ELSE JNull]

\* the call normalizeAll(nOut): normalization of what normalizeAll returned
NormalizeAgainCall ==
  /\ nRan
  /\ ~nRan2
  /\ nRan2' = TRUE
  /\ nOut2' = normalizeAll([i \in 1..Len(nOut) |-> RawOf(nOut[i])], NowT)
  /\ UNCHANGED <<nRaws, nIds, nCalls, nRan, nOut>>
  /\ UNCHANGED <<scoreVars, storeVars, runVars, callVars, moreVars>>

NextNorm ==
  \/ \E i \in 1..2 : NormalizeSignalCall(i)
  \/ NormalizeAllCall
  \/ NormalizeAgainCall

SpecNorm == InitNorm /\ [][NextNorm]_vars


(***************************************************************************)
(* Claims on the normalizer (SpecNorm)                                     *)
(***************************************************************************)

\* the ids normalizeSignal gives the raw records, by position
InputIdSeq == [i \in 1..Len(nRaws) |-> normalizeSignal(nRaws[i], NowT).id]

\* the first position at which ids has the id
FirstIndex(ids, id) ==
  CHOOSE i \in 1..Len(ids) : ids[i] = id /\ \A j \in 1..(i - 1) : ids[j] # id

\* C6: no two signals in the output of normalizeAll share an id
C6_UniqueIds ==
  nRan => \A i, j \in 1..Len(nOut) : i # j => nOut[i].id # nOut[j].id

\* C6 witness: a list of three records with a duplicate went through normalizeAll
C6_Witness ==
  /\ nRan
  /\ Len(nRaws) = 3
  /\ Len(nOut) = 2

\* C7: normalizeAll keeps, for every id among the inputs, exactly the normalization
\* of the first raw record with that id; later records with the id are dropped and
\* nothing of them is merged into the survivor
C7_FirstSeenWins ==
  nRan =>
    LET ids == InputIdSeq
        idSet == { ids[i] : i \in 1..Len(ids) }
    IN  /\ Len(nOut) = Cardinality(idSet)
        /\ \A id \in idSet :
             \E k \in 1..Len(nOut) :
               nOut[k] = normalizeSignal(nRaws[FirstIndex(ids, id)], NowT)

\* C7 witness: two records with one id and different stars; the first one's stars
\* are in the output and the second one's are not
C7_Witness ==
  /\ nRan
  /\ Len(nRaws) >= 2
  /\ nIds[1] # NoId
  /\ nIds[1] = nIds[2]
  /\ nRaws[1].stars # nRaws[2].stars
  /\ \E k \in 1..Len(nOut) : nOut[k].id = nIds[1] /\ nOut[k].stars = nRaws[1].stars

\* the key the claim speaks of: url, or else name, or else the first 50 characters
\* of text
FirstAvailable(raw) ==
  IF Truthy(raw.url) THEN raw.url
  ELSE IF Truthy(raw.name) THEN raw.name
  ELSE IF raw.text.t = "string" THEN JStr(Substring0(raw.text.v, 50))
  ELSE JNull

SameKey(r1, r2) ==
  /\ r1.source = r2.source
  /\ r1.subSource = r2.subSource
  /\ FirstAvailable(r1) = FirstAvailable(r2)

\* C8: two raw records with equal (source, subSource, url-or-name-or-text-prefix) get
\* the same id from normalizeSignal, whatever their other fields and the call order
C8_SameKeySameId ==
  (Len(nCalls) = 2 /\ SameKey(nRaws[1], nRaws[2])) => nIds[1] = nIds[2]

\* C8 witness: the second record was normalized before the first; the two differ in
\* their text beyond the 50th character and in their stars, and agree on the key
C8_Witness ==
  /\ nCalls = <<2, 1>>
  /\ SameKey(nRaws[1], nRaws[2])
  /\ nRaws[1].text # nRaws[2].text
  /\ nRaws[1].stars # nRaws[2].stars
  /\ ~Truthy(nRaws[1].url)
  /\ nIds[1] = nIds[2]

\* the ids of the signals of a list
IdSet(signals) == { signals[i].id : i \in 1..Len(signals) }

\* C19: normalizeAll applied to the output of normalizeAll gives the same set of ids:
\* no signal is dropped and no id is new
C19_SameIdSet ==
  nRan2 => /\ IdSet(nOut2) = IdSet(nOut)
           /\ Len(nOut2) = Len(nOut)

\* the instant a signal is ordered by when its date is missing or does not parse:
\* the instant of its collection
OrderDate(signal) ==
  IF signal.date.t = "iso" THEN signal.date.v ELSE signal.collectedAt.v

\* C20: the output of normalizeAll is in descending order of date, a signal whose
\* date does not parse taking the place its collection time gives it
C20_DateDescending ==
  nRan => \A k \in 1..(Len(nOut) - 1) : OrderDate(nOut[k]) >= OrderDate(nOut[k + 1])


(***************************************************************************)
(* normalizeAll on records of one repository, as the searches of the       *)
(* GitHub adapter give them                                                *)
(***************************************************************************)

s_new_repos == <<110, 101, 119, 95, 114, 101, 112, 111, 115>>
s_trending_repos == <<116, 114, 101, 110, 100, 105, 110, 103, 95>> \o <<114, 101, 112, 111, 115>>
\* "gh/o/r", the html_url of the repository o/r
s_htmlUrl == <<103, 104, 47>> \o s_repo

\* the repository o/r as found by the search for new repositories
RepoNew ==
  [EmptyRaw EXCEPT !.source = JStr(s_github), !.subSource = JStr(s_new_repos),
                   !.name = JStr(s_repo), !.url = JStr(s_htmlUrl),
                   !.stars = JNum(1), !.createdAt = JIso(10)]

\* the same record with other stars; the repository as found by the search for
\* trending repositories; the record without its url
RepoPool ==
  { RepoNew,
    [RepoNew EXCEPT !.stars = JNum(2)],
    [RepoNew EXCEPT !.stars = JNum(2), !.subSource = JStr(s_trending_repos)],
    [RepoNew EXCEPT !.stars = JNum(3), !.url = JNull] }

RepoLists == UNION { [1..n -> RepoPool] : n \in 0..MaxRaws }

InitRepos ==
  /\ nRaws \in RepoLists
  /\ nIds = <<NoId, NoId>>
  /\ nCalls = <<>>
  /\ nRan = FALSE
  /\ nOut = <<>>
  /\ nRan2 = FALSE
  /\ nOut2 = <<>>
  /\ InitScoreVars
  /\ InitStoreVars
  /\ InitRunVars
  /\ InitCallVars
  /\ InitMoreVars

SpecRepos == InitRepos /\ [][NextNorm]_vars

\* two records from source github with the same name and different stars
SameNameOtherStars(r1, r2) ==
  /\ r1.source = JStr(s_github)
  /\ r2.source = JStr(s_github)
  /\ r1.name = r2.name
  /\ Truthy(r1.name)
  /\ r1.stars # r2.stars

s_custom == <<99, 117, 115, 116, 111, 109>>

\* one value of every JSON type, the falsy ones and the truthy ones
JsonValues ==
  { JNull, JStr(<<>>), JStr(s_textA), JNum(0), JNum(7), JBool(FALSE), JBool(TRUE),
    JArr(<<>>), JObj }

\* a raw record with these five fields and no other
JsonRaw(source, subSource, name, text, signalType) ==
  [f \in DOMAIN EmptyRaw \cup {"signalType"} |->
     CASE f = "source"     -> source
       [] f = "subSource"  -> subSource
       [] f = "name"       -> name
       [] f = "text"       -> text
       [] f = "signalType" -> signalType
       [] OTHER            -> JNull]

JsonRaws ==
  { JsonRaw(source, subSource, name, text, signalType) :
      source \in {JNull, JStr(s_github), JStr(s_social)},
      subSource \in JsonValues,
      name \in {JNull, JStr(s_repo)},
      text \in JsonValues,
      signalType \in {JNull, JStr(s_custom)} }

InitJson ==
  /\ jRaw \in JsonRaws
  /\ jRan = FALSE
  /\ jOut = NoData
  /\ InitNormVars
  /\ InitScoreVars
  /\ InitStoreVars
  /\ InitRunVars
  /\ InitCallVars
  /\ InitCronVars

\* the call normalizeSignal(jRaw)
NormalizeJsonCall ==
  /\ ~jRan
  /\ jRan' = TRUE
  /\ jOut' = Completion(jRaw, NowT)
  /\ UNCHANGED jRaw
  /\ UNCHANGED <<normVars, scoreVars, storeVars, runVars, callVars, cronVars>>

NextJson == NormalizeJsonCall

SpecJson == InitJson /\ [][NextJson]_vars

\* C21: normalizeSignal never throws for a JSON-like raw record: whatever the types
\* of its fields, a signal is returned in which every missing field has its default
\* (source and subSource "unknown", text the empty string, url null)
C21_NeverThrows ==
  jRan =>
    /\ jOut.threw = "nothing"
    /\ jOut.value.source = Or(jRaw.source, JStr(s_unknown))
    /\ jOut.value.subSource = Or(jRaw.subSource, JStr(s_unknown))
    /\ jOut.value.text = Or(jRaw.text, JStr(<<>>))
    /\ jOut.value.url = JNull


(***************************************************************************)
(* The inputs of the scoring engine                                        *)
(***************************************************************************)

\* the longest list of narratives given to scoreNarratives
MaxNarratives == 2

EmptyNarrative ==
  [ id |-> JNull, sources |-> JNull, evidence |-> JNull, topics |-> JNull,
    velocity |-> JNull, stage |-> JNull, confidence |-> JNull ]

\* sources, evidence, velocity and stage: nothing but a declining velocity; two
\* sources and three points, stable and accelerating; five sources (one twice) and
\* four points, rising and emerging
NarrativeShapes ==
  { <<JNull, JNull, JStr(s_declining), JNull>>,
    <<JArr(<<s_social, s_onchain>>), JArr(<<1, 2, 3>>), JStr(s_stable), JStr(s_accelerating)>>,
    <<JArr(<<s_social, s_onchain, s_github, s_research, s_social>>), JArr(<<1, 2, 3, 4>>),
      JStr(s_rising), JStr(s_emerging)>> }

\* what the classifier may give as confidence, in hundredths: nothing, 0, 0.8, 1.5
Confidences == { JNull, JNum(0), JNum(80), JNum(150) }

\* two sources, three evidence points, rising, emerging, confidence 0.8
ExampleNarrative ==
  [EmptyNarrative EXCEPT !.sources = JArr(<<s_social, s_onchain>>),
                         !.evidence = JArr(<<1, 2, 3>>), !.topics = JArr(<<s_DeFi>>),
                         !.velocity = JStr(s_rising), !.stage = JStr(s_emerging),
                         !.confidence = JNum(80)]

NarrativePool ==
  { [EmptyNarrative EXCEPT !.sources = k[1], !.evidence = k[2],
                           !.topics = IF k[1] = JNull THEN JNull ELSE JArr(<<s_DeFi>>),
                           !.velocity = k[3], !.stage = k[4], !.confidence = c] :
      k \in NarrativeShapes, c \in Confidences }
  \cup
  { [EmptyNarrative EXCEPT !.sources = JArr(<<s_social>>), !.topics = JArr(<<s_nft, s_DeFi>>),
                           !.velocity = JStr(s_rising), !.stage = JStr(s_maturing),
                           !.confidence = JNum(c)] : c \in {85, 100} }
  \cup
  { ExampleNarrative }

\* the lists of narratives; the i-th narrative of a list has the id i
NarrativeLists ==
  UNION { { [i \in 1..n |-> [f[i] EXCEPT !.id = JNum(i)]] : f \in [1..n -> NarrativePool] } :
          n \in 0..MaxNarratives }

\* a signal as the scorer reads it: its topics
MatchingSignal == [topics |-> <<s_nft, s_defi>>]
OtherSignal == [topics |-> <<s_github>>]

\* no signal; four matching signals and one other; twenty-one matching signals
SignalLists ==
  { <<>>,
    [i \in 1..5 |-> IF i = 3 THEN OtherSignal ELSE MatchingSignal],
    [i \in 1..21 |-> MatchingSignal] }

(***************************************************************************)
(* The scoring engine as a state machine                                   *)
(***************************************************************************)

InitScore ==
  /\ sNarratives \in NarrativeLists
  /\ sSignals \in SignalLists
  /\ sRan = FALSE
  /\ sOut = <<>>
  /\ InitNormVars
  /\ InitStoreVars
  /\ InitRunVars
  /\ InitCallVars
  /\ InitMoreVars

\* the call scoreNarratives(sNarratives, sSignals)
ScoreNarrativesCall ==
  /\ ~sRan
  /\ sRan' = TRUE
  /\ sOut' = scoreNarratives(sNarratives, sSignals)
  /\ UNCHANGED <<sNarratives, sSignals>>
  /\ UNCHANGED <<normVars, storeVars, runVars, callVars, moreVars>>

NextScore == ScoreNarrativesCall

SpecScore == InitScore /\ [][NextScore]_vars

(***************************************************************************)
(* Claims on the scoring engine (SpecScore)                                *)
(***************************************************************************)

\* C9: every sub-score lies within its documented maximum, totalScore is the sum of
\* the six sub-scores and never exceeds 110
C9_ScoreBounds ==
  sRan =>
    \A k \in 1..Len(sOut) :
      LET sc == sOut[k].scores
      IN  /\ sc.crossSource <= 30
          /\ sc.evidence <= 25
          /\ sc.velocity <= 20
          /\ sc.stage <= 15
          /\ sc.confidence <= 10
          /\ sc.signalCount <= 10
          /\ sOut[k].totalScore = sc.crossSource + sc.evidence + sc.velocity
                                    + sc.stage + sc.confidence + sc.signalCount
          /\ sOut[k].totalScore <= 110

\* C10: the list scoreNarratives returns is in descending order of totalScore
C10_Descending ==
  sRan => \A k \in 1..(Len(sOut) - 1) : sOut[k].totalScore >= sOut[k + 1].totalScore

\* C10 witness: two narratives given in ascending order of score came out swapped
C10_Witness ==
  /\ sRan
  /\ Len(sOut) = 2
  /\ sOut[1].narrative.id = JNum(2)
  /\ sOut[1].totalScore > sOut[2].totalScore

\* C22: for a narrative whose confidence c is present and within [0, 1], c = 0
\* included, the confidence sub-score is round(c * 10); the default 0.5 (sub-score 5)
\* is used only when the confidence is absent
C22_ConfidenceScore ==
  sRan =>
    \A k \in 1..Len(sOut) :
      LET c == sOut[k].narrative.confidence
      IN  /\ (c.t = "number" /\ c.v \in 0..100) =>
                sOut[k].scores.confidence = RoundTimes10(c.v)
          /\ c.t = "null" => sOut[k].scores.confidence = 5

\* the input of the worked example: the one narrative, and five signals of which
\* four share a topic with it
ExampleInput ==
  /\ Len(sNarratives) = 1
  /\ sNarratives[1] = [ExampleNarrative EXCEPT !.id = JNum(1)]
  /\ Len(sSignals) = 5
  /\ Cardinality({ i \in 1..5 : \E j \in 1..Len(sSignals[i].topics) :
                      ToLowerCase(sSignals[i].topics[j]) = s_defi }) = 4

\* C23: the narrative with sources [social, onchain], 3 evidence points, velocity
\* rising, stage emerging and confidence 0.8, scored against 5 signals of which 4
\* share a topic with it, gets crossSource 16, evidence 24, velocity 20, stage 15,
\* confidence 8, signalCount 2, matchingSignalCount 4 and totalScore 85
C23_WorkedExample ==
  (sRan /\ ExampleInput) =>
    /\ Len(sOut) = 1
    /\ sOut[1].scores = [ crossSource |-> 16, evidence |-> 24, velocity |-> 20,
                          stage |-> 15, confidence |-> 8, signalCount |-> 2 ]
    /\ sOut[1].matchingSignalCount = 4
    /\ sOut[1].totalScore = 85

\* C23 witness: the example has been scored
C23_Witness ==
  /\ sRan
  /\ ExampleInput
  /\ sOut[1].rank = 1

\* C24: scoreNarratives gives the narrative at output position i the rank i, so the
\* ranks are exactly 1..n, and narratives with equal totalScore keep the relative
\* order they had in the input (the id of a narrative is its input position)
C24_DenseRanksStable ==
  sRan =>
    /\ Len(sOut) = Len(sNarratives)
    /\ \A i \in 1..Len(sOut) : sOut[i].rank = i
    /\ \A i, j \in 1..Len(sOut) :
         (i < j /\ sOut[i].totalScore = sOut[j].totalScore) =>
           sOut[i].narrative.id.v < sOut[j].narrative.id.v

\* C24 witness: two different narratives with the same totalScore were scored and
\* came out in their input order with ranks 1 and 2
C24_Witness ==
  /\ sRan
  /\ Len(sOut) = 2
  /\ sOut[1].totalScore = sOut[2].totalScore
  /\ sNarratives[1].confidence # sNarratives[2].confidence
  /\ sOut[1].narrative.id = JNum(1)
  /\ sOut[2].rank = 2


(***************************************************************************)
(* The snapshot store as a state machine: saveSignals and saveNarratives   *)
(* called by any caller at any time.  A save is synchronous, so no other   *)
(* save runs between its two writes; the directory between the two writes  *)
(* is a state, because the second write can fail and the process can stop. *)
(***************************************************************************)

\* the number of calls of the save functions
MaxSaves == 2

\* the last millisecond of the clock
MaxClock == 2

\* the contents saved: lists of signals or narratives, here of opaque items
Payloads == { <<>>, <<"a">>, <<"a", "b">> }

InitStore ==
  /\ InitStoreVars
  /\ InitNormVars
  /\ InitScoreVars
  /\ InitRunVars
  /\ InitCallVars
  /\ InitMoreVars

\* time passes
Tick ==
  /\ clock < MaxClock
  /\ clock' = clock + 1
  /\ UNCHANGED <<dir, svPc, svKind, svData, svName, svLog>>
  /\ UNCHANGED <<normVars, scoreVars, runVars, callVars, moreVars>>

\* saveSignals(payload, {}) or saveNarratives(payload, {}) up to its first write
SaveCall(kind, payload) ==
  /\ svPc = "idle"
  /\ Len(svLog) < MaxSaves
  /\ svPc' = "immutable"
  /\ svKind' = kind
  /\ svName' = SnapshotName(kind, clock)
  /\ svData' = IF kind = "signals" THEN SignalsData(payload, <<>>, clock)
               ELSE NarrativesData(payload, <<>>, clock)
  /\ UNCHANGED <<dir, clock, svLog>>
  /\ UNCHANGED <<normVars, scoreVars, runVars, callVars, moreVars>>

\* fs.writeFileSync(filepath, ...): the snapshot file; a throw ends the call
WriteImmutable(outcome) ==
  /\ svPc = "immutable"
  /\ dir' = WriteFileSync(dir, svName, svData, outcome)
  /\ IF outcome = "written"
     THEN svPc' = "latest" /\ UNCHANGED svLog
     ELSE /\ svPc' = "idle"
          /\ svLog' = Append(svLog, [kind |-> svKind, data |-> svData, returned |-> FALSE])
  /\ UNCHANGED <<clock, svKind, svData, svName>>
  /\ UNCHANGED <<normVars, scoreVars, runVars, callVars, moreVars>>

\* fs.writeFileSync(..._latest.json, ...): the latest alias; then the call returns
WriteLatest(outcome) ==
  /\ svPc = "latest"
  /\ dir' = WriteFileSync(dir, LatestName(svKind), svData, outcome)
  /\ svPc' = "idle"
  /\ svLog' = Append(svLog, [kind |-> svKind, data |-> svData,
                             returned |-> (outcome = "written")])
  /\ UNCHANGED <<clock, svKind, svData, svName>>
  /\ UNCHANGED <<normVars, scoreVars, runVars, callVars, moreVars>>

NextStore ==
  \/ Tick
  \/ \E kind \in Kinds, payload \in Payloads : SaveCall(kind, payload)
  \/ \E outcome \in WriteOutcomes : WriteImmutable(outcome)
  \/ \E outcome \in WriteOutcomes : WriteLatest(outcome)

SpecStore == InitStore /\ [][NextStore]_vars

(***************************************************************************)
(* Claims on the snapshot store (SpecStore)                                *)
(***************************************************************************)

\* the documents of the snapshot files of a kind that can be read
SnapshotData(kind) ==
  { dir[n].data : n \in { m \in SnapshotNames(dir, kind) : dir[m].ok } }

\* C4: whenever the latest record of a kind exists, a snapshot record of the kind
\* with the same content exists, in every state including the one between the two
\* writes of a save and those after a failed write
C4_LatestIsDurable ==
  \A kind \in Kinds :
    loadLatest(dir, kind) # NoData => loadLatest(dir, kind) \in SnapshotData(kind)

\* the saveNarratives calls that returned, in order
ReturnedNarrativeSaves ==
  SelectSeq(svLog, LAMBDA c : c.kind = "narratives" /\ c.returned)

\* C5: after two saveNarratives calls have returned, loadNarrativeHistory gives both
\* records with their original content and loadLatestNarratives gives the content of
\* the second call
C5_BothRetrievable ==
  (svPc = "idle" /\ Len(ReturnedNarrativeSaves) = 2) =>
    LET history == loadHistory(dir, "narratives", 10)
    IN  /\ \A c \in 1..2 :
             \E k \in 1..Len(history) : history[k] = ReturnedNarrativeSaves[c].data
        /\ loadLatest(dir, "narratives") = ReturnedNarrativeSaves[2].data

\* the content of the last save of a kind that returned, if any
LastReturned(kind) ==
  LET saves == SelectSeq(svLog, LAMBDA c : c.kind = kind /\ c.returned)
  IN  IF saves = <<>> THEN NoData ELSE saves[Len(saves)].data

\* C17: loadLatestSignals / loadLatestNarratives give the content of the last
\* completed save of their kind, and the absent value when there was none
C17_LatestIsLastSave ==
  \A kind \in Kinds : loadLatest(dir, kind) = LastReturned(kind)

\* the limits given to loadSignalHistory / loadNarrativeHistory
Limits == -1..3

\* the saves of the kind that have ended, in their order
SavesOf(kind) == SelectSeq(svLog, LAMBDA c : c.kind = kind)

\* C27: a save is never interleaved with another save, whatever runs call them: when
\* no save is under way and the saves of a kind so far have completed, the latest
\* record of the kind is the newest immutable record of the kind, the first element
\* of loadSignalHistory(1) / loadNarrativeHistory(1); without a save there is neither
C27_LatestIsNewestSnapshot ==
  \A kind \in Kinds :
    (svPc = "idle" /\ \A i \in 1..Len(SavesOf(kind)) : SavesOf(kind)[i].returned) =>
      IF SavesOf(kind) = <<>>
      THEN loadLatest(dir, kind) = NoData /\ loadHistory(dir, kind, 1) = <<>>
      ELSE /\ Len(loadHistory(dir, kind, 1)) = 1
           /\ loadLatest(dir, kind) = loadHistory(dir, kind, 1)[1]

\* C27 witness: two saves of signals with different contents completed at different
\* times, and the latest record is the content of the second
C27_Witness ==
  /\ svPc = "idle"
  /\ Len(SavesOf("signals")) = 2
  /\ SavesOf("signals")[1].returned
  /\ SavesOf("signals")[2].returned
  /\ SavesOf("signals")[1].data.signals # SavesOf("signals")[2].data.signals
  /\ SavesOf("signals")[1].data.timestamp < SavesOf("signals")[2].data.timestamp
  /\ loadLatest(dir, "signals") = SavesOf("signals")[2].data

\* C18: for every kind and every limit the history is at most limit records, each
\* the content of a snapshot file of that kind and never of the latest alias, in
\* order of descending time
C18_HistoryNewestFirst ==
  \A kind \in Kinds, limit \in Limits :
    LET h     == loadHistory(dir, kind, limit)
        snaps == { n \in DOMAIN dir : n.kind = kind /\ ~n.latest /\ dir[n].ok }
    IN  /\ Len(h) <= (IF limit < 0 THEN 0 ELSE limit)
        /\ Len(h) <= Cardinality(snaps)
        /\ \A k \in 1..Len(h) : \E n \in snaps : h[k] = dir[n].data
        /\ \A k \in 1..(Len(h) - 1) : h[k].timestamp > h[k + 1].timestamp


(***************************************************************************)
(* The inputs of the collection: what each adapter can resolve with        *)
(***************************************************************************)

s_other == <<97, 47, 98>>

SocialA == [EmptyRaw EXCEPT !.source = JStr(s_social), !.subSource = JStr(s_kol),
                            !.text = JStr(s_textA), !.date = JIso(10),
                            !.topics = JArr(<<s_DeFi, s_nft>>)]
\* the same (source, subSource, first 50 characters of text) as SocialA
SocialB == [SocialA EXCEPT !.text = JStr(s_textB), !.date = JIso(20)]
OnchainA == [EmptyRaw EXCEPT !.source = JStr(s_onchain), !.name = JStr(s_repo),
                             !.ticker = JStr(s_nft)]
GithubA == [EmptyRaw EXCEPT !.source = JStr(s_github), !.name = JStr(s_repo),
                            !.url = JStr(s_repo), !.stars = JNum(1), !.createdAt = JIso(5)]
GithubB == [GithubA EXCEPT !.name = JStr(s_other), !.url = JStr(s_other),
                           !.stars = JNum(2), !.createdAt = JIso(15)]
ResearchA == [EmptyRaw EXCEPT !.source = JStr(s_research), !.text = JStr(s_textA),
                              !.date = JIso(30)]
\* the same (source, subSource, first 50 characters of text) as ResearchA
ResearchB == [ResearchA EXCEPT !.text = JStr(s_textB), !.date = JIso(40)]
ResearchC == [EmptyRaw EXCEPT !.source = JStr(s_research), !.url = JStr(s_repo),
                              !.date = JIso(20)]

AdapterValues ==
  [ social   |-> { <<SocialA>>, <<SocialA, SocialB>> },
    onchain  |-> { <<>>, <<OnchainA>> },
    github   |-> { <<GithubA>>, <<GithubB, GithubA>> },
    research |-> { <<ResearchA>>, <<ResearchA, ResearchB, ResearchC>> } ]

\* a signals snapshot an earlier run of the process left in the data directory
EarlierData == SignalsData(normalizeAll(<<GithubA>>, 0), <<>>, 0)
EarlierDir ==
  WriteFileSync(WriteFileSync(EmptyDir, SnapshotName("signals", 0), EarlierData, "written"),
                LatestName("signals"), EarlierData, "written")

(***************************************************************************)
(* The collection pipeline as a state machine: one call of runCollection   *)
(***************************************************************************)

Init ==
  /\ InitRunVars
  /\ InitNormVars
  /\ InitScoreVars
  /\ InitCallVars
  /\ dir \in {EmptyDir, EarlierDir}
  /\ clock = 1
  /\ svPc = "idle"
  /\ svKind = "signals"
  /\ svData = NoData
  /\ svName = LatestName("signals")
  /\ svLog = <<>>
  /\ InitMoreVars

\* runCollection(14) up to the await: the four adapters are called
StartCollection ==
  /\ pc = "idle"
  /\ pc' = "awaiting"
  /\ UNCHANGED <<settled, settleOrder, allRawSignals, ret, failure>>
  /\ UNCHANGED <<normVars, scoreVars, storeVars, callVars, moreVars>>

\* the promise of adapter a is fulfilled with the list v
AdapterFulfils(a, v) ==
  /\ pc # "idle"
  /\ settled[a].status = "pending"
  /\ settled' = [settled EXCEPT ![a] = [status |-> "fulfilled", value |-> v]]
  /\ settleOrder' = Append(settleOrder, a)
  /\ UNCHANGED <<pc, allRawSignals, ret, failure>>
  /\ UNCHANGED <<normVars, scoreVars, storeVars, callVars, moreVars>>

\* the promise of adapter a is rejected
AdapterRejects(a) ==
  /\ pc # "idle"
  /\ settled[a].status = "pending"
  /\ settled' = [settled EXCEPT ![a] = [status |-> "rejected", value |-> <<>>]]
  /\ settleOrder' = Append(settleOrder, a)
  /\ UNCHANGED <<pc, allRawSignals, ret, failure>>
  /\ UNCHANGED <<normVars, scoreVars, storeVars, callVars, moreVars>>

\* the await ends: the results are accumulated and normalized, the statistics are
\* computed and saveSignals runs up to its first write
JoinAndNormalize ==
  /\ pc = "awaiting"
  /\ JoinState(settled) # "pending"
  /\ IF JoinState(settled) = "rejected"
     THEN /\ pc' = "rejected"
          /\ failure' = "adapter"
          /\ UNCHANGED <<allRawSignals, svPc, svKind, svName, svData>>
     ELSE LET raws    == Accumulate(JoinResults(settled, settleOrder))
              signals == normalizeAll(raws, clock)
              stats   == getSignalStats(signals)
          IN  /\ allRawSignals' = raws
              /\ pc' = "saving"
              /\ svPc' = "immutable"
              /\ svKind' = "signals"
              /\ svName' = SnapshotName("signals", clock)
              /\ svData' = SignalsData(signals, [stats |-> stats, dayRange |-> DayRange], clock)
              /\ UNCHANGED failure
  /\ UNCHANGED <<settled, settleOrder, ret, dir, clock, svLog>>
  /\ UNCHANGED <<normVars, scoreVars, callVars, moreVars>>

\* saveSignals has returned or thrown: runCollection returns { signals, stats } or
\* rejects with what saveSignals threw
CollectionReturns ==
  /\ pc = "saving"
  /\ svPc = "idle"
  /\ IF svLog[Len(svLog)].returned
     THEN /\ pc' = "returned"
          /\ ret' = [signals |-> svData.signals, stats |-> svData.meta.stats]
          /\ UNCHANGED failure
     ELSE /\ pc' = "rejected"
          /\ failure' = "storage"
          /\ UNCHANGED ret
  /\ UNCHANGED <<settled, settleOrder, allRawSignals>>
  /\ UNCHANGED <<normVars, scoreVars, storeVars, callVars, moreVars>>

Next ==
  \/ StartCollection
  \/ \E a \in Adapters : \E v \in AdapterValues[a] : AdapterFulfils(a, v)
  \/ \E a \in Adapters : AdapterRejects(a)
  \/ JoinAndNormalize
  \/ \E outcome \in WriteOutcomes : WriteImmutable(outcome)
  \/ \E outcome \in WriteOutcomes : WriteLatest(outcome)
  \/ CollectionReturns
  \/ Tick

Spec == Init /\ [][Next]_vars

(***************************************************************************)
(* Claims on the collection orchestrator (Spec)                            *)
(***************************************************************************)

Fulfilled == { a \in Adapters : settled[a].status = "fulfilled" }
Rejected == { a \in Adapters : settled[a].status = "rejected" }

\* the accumulation list has been built
Joined == pc \in {"saving", "returned"} \/ (pc = "rejected" /\ failure = "storage")

\* some adapters failed and not all of them
PartialFailure == Rejected # {} /\ Fulfilled # {}

RECURSIVE SumOfSizes(_)
\* the sum of the sizes of the lists the fulfilled adapters among as resolved with
SumOfSizes(as) ==
  IF as = {} THEN 0
  ELSE LET a == CHOOSE x \in as : TRUE
       IN  (IF a \in Fulfilled THEN Len(settled[a].value) ELSE 0) + SumOfSizes(as \ {a})

RECURSIVE InDeclarationOrder(_)
\* the lists of the fulfilled adapters from the i-th declared adapter on, one after
\* the other
InDeclarationOrder(i) ==
  IF i > Len(AdapterOrder) THEN <<>>
  ELSE (IF AdapterOrder[i] \in Fulfilled THEN settled[AdapterOrder[i]].value ELSE <<>>)
         \o InDeclarationOrder(i + 1)

\* C1: normalization starts only after all four adapters have settled, whichever of
\* them reject and in whatever order they settle, and no adapter rejection makes
\* runCollection reject
C1_SettleAll ==
  /\ pc \in {"saving", "returned", "rejected"} => \A a \in Adapters : settled[a].status # "pending"
  /\ failure # "adapter"
  /\ pc = "rejected" => failure = "storage"

\* C1 witness: the first adapter to settle rejected, another one rejected later, the
\* others were fulfilled after the first rejection and the call returned their signals
C1_Witness ==
  /\ pc = "returned"
  /\ Cardinality(Rejected) = 2
  /\ settled[settleOrder[1]].status = "rejected"
  /\ settled[settleOrder[4]].status = "fulfilled"
  /\ Len(ret.signals) > 0

\* C2 as stated: with some but not all adapters failed, the record set runCollection
\* returns has the sum of the sizes of the successful adapters' outputs as its size
C2_ReturnedSizeIsSum ==
  (pc = "returned" /\ PartialFailure) => Len(ret.signals) = SumOfSizes(Adapters)

\* C2 amended: with some but not all adapters failed, the accumulation list has the
\* sum of the sizes of the successful adapters' outputs as its size, the returned
\* signals are one for each id among these records, at most that many, and no adapter
\* failure makes the call reject
C2_AccumulatedSizeIsSum ==
  /\ (Joined /\ PartialFailure) => Len(allRawSignals) = SumOfSizes(Adapters)
  /\ (pc = "returned" /\ PartialFailure) =>
       /\ Len(ret.signals) =
            Cardinality({ generateId(allRawSignals[i]) : i \in 1..Len(allRawSignals) })
       /\ Len(ret.signals) <= SumOfSizes(Adapters)
  /\ PartialFailure => failure # "adapter"

\* C2 witness: one adapter failed, the others gave five records, two of which share
\* the id of an earlier one: three signals were returned
C2_Witness ==
  /\ pc = "returned"
  /\ Rejected = {"github"}
  /\ SumOfSizes(Adapters) = 5
  /\ Len(ret.signals) = 3

\* C3: the accumulation list is the successful adapters' results one after the other
\* in declaration order, whatever the order in which the adapters settled; a failed
\* adapter adds nothing and its failure is not thrown
C3_DeclarationOrder ==
  /\ Joined => allRawSignals = InDeclarationOrder(1)
  /\ failure # "adapter"

\* C3 witness: the adapters settled in the reverse of the declaration order, one of
\* them rejected, and the list starts with the records of the first declared adapter
C3_Witness ==
  /\ Joined
  /\ settleOrder = <<"research", "github", "onchain", "social">>
  /\ Rejected = {"onchain"}
  /\ Len(allRawSignals) = 6
  /\ allRawSignals[1] = SocialA
  /\ allRawSignals[6] = ResearchC

\* C16: when all four adapters reject, nothing is accumulated, the call returns the
\* empty record set with statistics of zero signals, and the rejections do not make
\* it reject: it rejects only if the write of the snapshot throws
C16_AllFailedReturnsEmpty ==
  Rejected = Adapters =>
    /\ Joined => allRawSignals = <<>>
    /\ pc = "returned" => (ret.signals = <<>> /\ ret.stats.total = 0)
    /\ failure # "adapter"
    /\ pc = "rejected" => failure = "storage"

\* C16 witness: all four adapters rejected and the call returned no signal
C16_Witness ==
  /\ pc = "returned"
  /\ Rejected = Adapters
  /\ ret.signals = <<>>
  /\ svLog[Len(svLog)].data.signalCount = 0

\* C28: when every adapter has failed, runCollection saves an empty signal set: the
\* save it starts has signalCount 0, the snapshot file it has written holds it, and
\* once it has returned the signals latest alias holds it too, so that
\* loadLatestSignals gives an empty signal list whatever an earlier run had stored
C28_AllFailedOverwritesLatest ==
  Rejected = Adapters =>
    /\ pc = "saving" => (svKind = "signals" /\ svData.signalCount = 0 /\ svData.signals = <<>>)
    /\ (pc = "saving" /\ svPc = "latest") => dir[svName] = Written(svData)
    /\ pc = "returned" =>
         /\ SnapshotName("signals", svData.timestamp) \in DOMAIN dir
         /\ dir[SnapshotName("signals", svData.timestamp)] = Written(svData)
         /\ dir[LatestName("signals")] = Written(svData)
         /\ loadLatest(dir, "signals").signalCount = 0
         /\ loadLatest(dir, "signals").signals = <<>>

\* C28 witness: an earlier run had stored one signal; every adapter failed, the run
\* returned, the earlier snapshot is still there and the latest signals are empty
C28_Witness ==
  /\ Rejected = Adapters
  /\ pc = "returned"
  /\ SnapshotName("signals", 0) \in DOMAIN dir
  /\ dir[SnapshotName("signals", 0)].data.signalCount = 1
  /\ loadLatest(dir, "signals").signals = <<>>

(***************************************************************************)
(* analysis/build-ideas.js: generateBuildIdeas                             *)
(*                                                                         *)
(* A call of askGrokForJson either throws or returns what was parsed from  *)
(* the answer: null, or an object whose ideas field is absent, a string or *)
(* an array.  Of an idea the fields name, oneLiner, one_liner and          *)
(* difficulty are kept; the other fields follow the same pattern.          *)
(***************************************************************************)

s_UnnamedIdea == <<85, 110, 110, 97, 109, 101, 100, 32, 73, 100, 101, 97>>
s_medium == <<109, 101, 100, 105, 117, 109>>
s_easy == <<101, 97, 115, 121>>
s_Scanner == <<83, 99, 97, 110, 110, 101, 114>>

\* an object with an ideas field
JIdeas(ideas) == [t |-> "object", ideas |-> ideas]

\* the callback of result.ideas.map
MapIdea(idea) ==
  [ name       |-> Or(idea.name, JStr(s_UnnamedIdea)),
    oneLiner   |-> Or(Or(idea.oneLiner, idea.one_liner), JStr(<<>>)),
    difficulty |-> Or(idea.difficulty, JStr(s_medium)) ]

\* generateIdeasForNarrative, given how its call of askGrokForJson ended: whether it
\* throws, and the ideas it returns.  Reading a field of an idea that is null throws.
generateIdeasForNarrative(call) ==
  IF call.threw THEN [threw |-> TRUE, ideas |-> <<>>]
  ELSE IF call.result.t # "object" THEN [threw |-> FALSE, ideas |-> <<>>]
  ELSE IF ~Truthy(call.result.ideas) \/ call.result.ideas.t # "array"
       THEN [threw |-> FALSE, ideas |-> <<>>]
  ELSE LET ideas == call.result.ideas.v
       IN  IF \E i \in 1..Len(ideas) : ideas[i].t = "null"
           THEN [threw |-> TRUE, ideas |-> <<>>]
           ELSE [threw |-> FALSE, ideas |-> [i \in 1..Len(ideas) |-> MapIdea(ideas[i])]]

\* { ...narrative, buildIdeas: ideas }
Enrich(narrative, ideas) ==
  [f \in DOMAIN narrative \cup {"buildIdeas"} |->
     IF f = "buildIdeas" THEN ideas ELSE narrative[f]]

\* the body of the loop without its try and catch: what the idea call throws leaves
\* the loop
BuildIdeasStep_NoCatch(narrative, call) ==
  LET r == generateIdeasForNarrative(call)
  IN  [threw |-> r.threw, narrative |-> Enrich(narrative, r.ideas)]

\* the try and catch in the loop of generateBuildIdeas: the narrative with its ideas,
\* or with no ideas when the idea call threw; nothing is thrown further
BuildIdeasStep(narrative, call) ==
  LET r == generateIdeasForNarrative(call)
  IN  [threw |-> FALSE, narrative |-> Enrich(narrative, IF r.threw THEN <<>> ELSE r.ideas)]

\* enriched.unshift(x) in place of enriched.push(x)
PushEnriched_Front(enriched, x) == <<x>> \o enriched

\* enriched.push(x)
PushEnriched(enriched, x) == Append(enriched, x)

(***************************************************************************)
(* The inputs of generateBuildIdeas                                        *)
(***************************************************************************)

\* the longest list of narratives given to generateBuildIdeas
MaxEnriched == 3

AnIdea == [ t |-> "object", name |-> JStr(s_Scanner), oneLiner |-> JNull, one_liner |-> JStr(s_Scanner),
            difficulty |-> JStr(s_easy) ]
BareIdea == [ t |-> "object", name |-> JNull, oneLiner |-> JNull, one_liner |-> JNull, difficulty |-> JNull ]

\* how a call of askGrokForJson can end
IdeaCalls ==
  { [threw |-> TRUE, result |-> JNull],
    [threw |-> FALSE, result |-> JNull],
    [threw |-> FALSE, result |-> JIdeas(JNull)],
    [threw |-> FALSE, result |-> JIdeas(JStr(s_Scanner))],
    [threw |-> FALSE, result |-> JIdeas(JArr(<<AnIdea, BareIdea>>))],
    [threw |-> FALSE, result |-> JIdeas(JArr(<<AnIdea, JNull>>))] }

\* two narratives as the classifier gives them, of different scores
NarrativeA ==
  [EmptyNarrative EXCEPT !.sources = JArr(<<s_social, s_onchain>>),
                         !.evidence = JArr(<<1, 2, 3>>), !.topics = JArr(<<s_DeFi>>),
                         !.velocity = JStr(s_rising), !.stage = JStr(s_emerging),
                         !.confidence = JNum(80)]
NarrativeB ==
  [EmptyNarrative EXCEPT !.sources = JArr(<<s_github>>), !.topics = JArr(<<s_nft>>),
                         !.velocity = JStr(s_stable)]

\* the lists of scored narratives: what scoreNarratives returns for lists of
\* NarrativeA and NarrativeB, the i-th narrative of a list having the id i
ScoredLists ==
  { scoreNarratives([i \in 1..Len(f) |-> [f[i] EXCEPT !.id = JNum(i)]], <<>>) :
      f \in UNION { [1..n -> {NarrativeA, NarrativeB}] : n \in 0..MaxEnriched } }

(***************************************************************************)
(* generateBuildIdeas as a state machine: one idea call at a time, a delay *)
(* of one second after each                                                *)
(***************************************************************************)

InitIdeas ==
  /\ biPc = "idle"
  /\ biIn \in ScoredLists
  /\ biEnriched = <<>>
  /\ biLog = <<>>
  /\ InitAnalysisVars
  /\ InitApiVars
  /\ InitNormVars
  /\ InitScoreVars
  /\ InitStoreVars
  /\ InitRunVars
  /\ InitMoreVars

\* generateBuildIdeas(biIn) up to its first await
GenerateBuildIdeasCall ==
  /\ biPc = "idle"
  /\ biPc' = "calling"
  /\ UNCHANGED <<biIn, biEnriched, biLog>>
  /\ UNCHANGED <<normVars, scoreVars, storeVars, runVars, analysisVars, apiVars, moreVars>>

\* the idea call of the next narrative ends; the narrative is pushed with its ideas
IdeaCallSettles(call) ==
  /\ biPc = "calling"
  /\ Len(biEnriched) < Len(biIn)
  /\ LET step == BuildIdeasStep(biIn[Len(biEnriched) + 1], call)
     IN  IF step.threw
         THEN biPc' = "rejected" /\ UNCHANGED biEnriched
         ELSE biPc' = "delay" /\ biEnriched' = PushEnriched(biEnriched, step.narrative)
  /\ biLog' = Append(biLog, call)
  /\ UNCHANGED biIn
  /\ UNCHANGED <<normVars, scoreVars, storeVars, runVars, analysisVars, apiVars, moreVars>>

\* await new Promise(r => setTimeout(r, 1000)) ends
DelayEnds ==
  /\ biPc = "delay"
  /\ biPc' = "calling"
  /\ UNCHANGED <<biIn, biEnriched, biLog>>
  /\ UNCHANGED <<normVars, scoreVars, storeVars, runVars, analysisVars, apiVars, moreVars>>

\* the loop is over: return enriched
BuildIdeasReturns ==
  /\ biPc = "calling"
  /\ Len(biEnriched) >= Len(biIn)
  /\ biPc' = "returned"
  /\ UNCHANGED <<biIn, biEnriched, biLog>>
  /\ UNCHANGED <<normVars, scoreVars, storeVars, runVars, analysisVars, apiVars, moreVars>>

NextIdeas ==
  \/ GenerateBuildIdeasCall
  \/ \E call \in IdeaCalls : IdeaCallSettles(call)
  \/ DelayEnds
  \/ BuildIdeasReturns

SpecIdeas == InitIdeas /\ [][NextIdeas]_vars

(***************************************************************************)
(* Claims on generateBuildIdeas (SpecIdeas)                                *)
(***************************************************************************)

\* C14: the list enriched is, position by position, the input list: every field of
\* the scored narrative is unchanged, the rank is the position, and the only field
\* added is buildIdeas; when the call returns the list has the length of the input
C14_AnnotationOnly ==
  /\ Len(biEnriched) <= Len(biIn)
  /\ \A i \in 1..Len(biEnriched) :
       /\ DOMAIN biEnriched[i] = DOMAIN biIn[i] \cup {"buildIdeas"}
       /\ \A f \in DOMAIN biIn[i] : biEnriched[i][f] = biIn[i][f]
       /\ biEnriched[i].rank = i
  /\ biPc = "returned" => Len(biEnriched) = Len(biIn)

\* C14 witness: three narratives of two different scores; the idea call of the first
\* threw, the second gave ideas, and the call returned
C14_Witness ==
  /\ biPc = "returned"
  /\ Len(biIn) = 3
  /\ biIn[1].totalScore > biIn[3].totalScore
  /\ biLog[1].threw
  /\ biEnriched[2].buildIdeas # <<>>
  /\ biEnriched[3].rank = 3

\* the idea call threw, or returned something without an array of ideas, or an array
\* with a null in it
IdeaCallFailed(call) ==
  \/ call.threw
  \/ call.result.t # "object"
  \/ call.result.ideas.t # "array"
  \/ \E i \in 1..Len(call.result.ideas.v) : call.result.ideas.v[i].t = "null"

\* C15: a narrative whose idea call failed has buildIdeas = [], every other narrative
\* has the ideas its own call gave, and generateBuildIdeas never rejects
C15_FailureGivesNoIdeas ==
  /\ biPc # "rejected"
  /\ Len(biLog) = Len(biEnriched)
  /\ \A i \in 1..Len(biEnriched) :
       IF IdeaCallFailed(biLog[i])
       THEN biEnriched[i].buildIdeas = <<>>
       ELSE /\ Len(biEnriched[i].buildIdeas) = Len(biLog[i].result.ideas.v)
            /\ biEnriched[i].buildIdeas[1].name = biLog[i].result.ideas.v[1].name

\* C15 witness: of three narratives the first idea call threw, the second returned
\* null and the third gave two ideas; the call returned all three
C15_Witness ==
  /\ biPc = "returned"
  /\ Len(biEnriched) = 3
  /\ biLog[1].threw
  /\ ~biLog[2].threw /\ biLog[2].result = JNull
  /\ biEnriched[1].buildIdeas = <<>>
  /\ biEnriched[2].buildIdeas = <<>>
  /\ Len(biEnriched[3].buildIdeas) = 2

(***************************************************************************)
(* analysis/clustering.js: clusterNarratives; cron/scheduler.js:           *)
(* runAnalysis and runFull; server.js: the trigger endpoints               *)
(***************************************************************************)

\* an object with a narratives field
JNarratives(narratives) == [t |-> "object", narratives |-> narratives]

\* clusterNarratives, given how its call of askGrokForJson ended: whether it throws,
\* and the narratives it returns.  The call is not inside a try.
clusterNarratives(call) ==
  IF call.threw THEN [threw |-> TRUE, narratives |-> <<>>]
  ELSE IF call.result.t # "object" THEN [threw |-> FALSE, narratives |-> <<>>]
  ELSE IF ~Truthy(call.result.narratives) \/ call.result.narratives.t # "array"
       THEN [threw |-> FALSE, narratives |-> <<>>]
  ELSE [threw |-> FALSE, narratives |-> call.result.narratives.v]

\* the handler answers success whatever the run did
Respond_AlwaysSuccess(endpoint, run) ==
  [status |-> 200, success |-> TRUE, signalCount |-> Len(run.signals),
   narrativeCount |-> Len(run.narratives)]

\* the try and catch of a trigger endpoint: res.json({ success: true, ... }) or
\* res.status(500).json({ success: false, message: err.message })
Respond(endpoint, run) ==
  IF run.rejected
  THEN [status |-> 500, success |-> FALSE, message |-> run.message]
  ELSE [status |-> 200, success |-> TRUE, signalCount |-> Len(run.signals),
        narrativeCount |-> Len(run.narratives)]

\* a rejected adapter promise
Rejection == [status |-> "rejected", value |-> <<>>]

\* how the four adapters settle: all rejected; one rejected; all fulfilled
SettleCases ==
  { [a \in Adapters |-> Rejection],
    [ social   |-> [status |-> "fulfilled", value |-> <<SocialA, SocialB>>],
      onchain  |-> Rejection,
      github   |-> [status |-> "fulfilled", value |-> <<GithubA>>],
      research |-> [status |-> "fulfilled", value |-> <<ResearchA>>] ],
    [ social   |-> [status |-> "fulfilled", value |-> <<SocialA>>],
      onchain  |-> [status |-> "fulfilled", value |-> <<OnchainA>>],
      github   |-> [status |-> "fulfilled", value |-> <<GithubB, GithubA>>],
      research |-> [status |-> "fulfilled", value |-> <<ResearchC>>] ] }

\* how the call of askGrokForJson in clusterNarratives can end
ClusterCalls ==
  { [threw |-> TRUE, result |-> JNull],
    [threw |-> FALSE, result |-> JNull],
    [threw |-> FALSE, result |-> JNarratives(JNull)],
    [threw |-> FALSE, result |-> JNarratives(JStr(s_DeFi))],
    [threw |-> FALSE, result |-> JNarratives(JArr(<<>>))],
    [threw |-> FALSE, result |-> JNarratives(JArr(<<[NarrativeB EXCEPT !.id = JNum(1)],
                                                    [NarrativeA EXCEPT !.id = JNum(2)]>>))] }

\* a data directory in which the write of the signals latest alias failed after the
\* file was opened: the snapshot is there, the alias does not parse
CorruptDir ==
  WriteFileSync(WriteFileSync(EmptyDir, SnapshotName("signals", 0), EarlierData, "written"),
                LatestName("signals"), EarlierData, "truncated")

\* the process before a request: the data directory is empty, or holds what an
\* earlier run saved, or what an earlier run that failed left behind
InitRun ==
  /\ InitRunVars
  /\ InitNormVars
  /\ InitScoreVars
  /\ InitCallVars
  /\ InitMoreVars
  /\ dir \in {EmptyDir, EarlierDir, CorruptDir}
  /\ clock = 1
  /\ svPc = "idle"
  /\ svKind = "signals"
  /\ svData = NoData
  /\ svName = LatestName("signals")
  /\ svLog = <<>>

\* POST /api/collect up to the await in runCollection
PostCollect ==
  /\ req = "none"
  /\ pc = "idle"
  /\ req' = "collect"
  /\ startDir' = dir
  /\ pc' = "awaiting"
  /\ UNCHANGED <<res, settled, settleOrder, allRawSignals, ret, failure>>
  /\ UNCHANGED <<normVars, scoreVars, storeVars, ideaVars, analysisVars, moreVars>>

\* POST /api/full-run up to the await in runCollection
PostFullRun ==
  /\ req = "none"
  /\ pc = "idle"
  /\ req' = "full-run"
  /\ startDir' = dir
  /\ pc' = "awaiting"
  /\ fullPc' = "collecting"
  /\ UNCHANGED <<res, settled, settleOrder, allRawSignals, ret, failure>>
  /\ UNCHANGED <<anPc, anSignals, anCluster, anRet, anFailure>>
  /\ UNCHANGED <<normVars, scoreVars, storeVars, ideaVars, moreVars>>

\* PostAnalyze without the early return: with no latest signals runAnalysis goes on
\* with an empty list
PostAnalyze_NoEarlyReturn ==
  /\ req = "none"
  /\ anPc = "idle"
  /\ req' = "analyze"
  /\ startDir' = dir
  /\ LET latest == loadLatest(dir, "signals")
     IN  /\ anPc' = "clustering"
         /\ anSignals' = IF latest = NoData THEN <<>> ELSE latest.signals
         /\ UNCHANGED anRet
  /\ UNCHANGED <<res, anCluster, anFailure, fullPc>>
  /\ UNCHANGED <<normVars, scoreVars, storeVars, runVars, ideaVars, moreVars>>

\* POST /api/analyze: runAnalysis() loads the latest signals and returns at once when
\* there are none, or goes on to the await of clusterNarratives
PostAnalyze ==
  /\ req = "none"
  /\ anPc = "idle"
  /\ req' = "analyze"
  /\ startDir' = dir
  /\ LET latest == loadLatest(dir, "signals")
     IN  IF latest = NoData
         THEN /\ anPc' = "returned"
              /\ anRet' = [narratives |-> <<>>, stats |-> <<>>]
              /\ UNCHANGED anSignals
         ELSE /\ anPc' = "clustering"
              /\ anSignals' = latest.signals
              /\ UNCHANGED anRet
  /\ UNCHANGED <<res, anCluster, anFailure, fullPc>>
  /\ UNCHANGED <<normVars, scoreVars, storeVars, runVars, ideaVars, moreVars>>

\* the four adapter promises settle
AdaptersSettle(c) ==
  /\ pc = "awaiting"
  /\ \A a \in Adapters : settled[a].status = "pending"
  /\ settled' = c
  /\ settleOrder' = AdapterOrder
  /\ UNCHANGED <<pc, allRawSignals, ret, failure>>
  /\ UNCHANGED <<normVars, scoreVars, storeVars, callVars, moreVars>>

\* runFull: runCollection has returned, runAnalysis(signals) runs up to the await of
\* clusterNarratives; an empty array of signals is not replaced by the latest snapshot
FullRunAnalyzes ==
  /\ fullPc = "collecting"
  /\ pc = "returned"
  /\ fullPc' = "analyzing"
  /\ anPc' = "clustering"
  /\ anSignals' = ret.signals
  /\ UNCHANGED <<anCluster, anRet, anFailure>>
  /\ UNCHANGED <<normVars, scoreVars, storeVars, runVars, ideaVars, apiVars, moreVars>>

\* runFull rejects with what runCollection or runAnalysis rejected with
FullRunRejects ==
  /\ \/ fullPc = "collecting" /\ pc = "rejected"
     \/ fullPc = "analyzing" /\ anPc = "rejected"
  /\ fullPc' = "rejected"
  /\ UNCHANGED <<anPc, anSignals, anCluster, anRet, anFailure>>
  /\ UNCHANGED <<normVars, scoreVars, storeVars, runVars, ideaVars, apiVars, moreVars>>

\* runFull returns { signals, ...result }
FullRunReturns ==
  /\ fullPc = "analyzing"
  /\ anPc = "returned"
  /\ fullPc' = "returned"
  /\ UNCHANGED <<anPc, anSignals, anCluster, anRet, anFailure>>
  /\ UNCHANGED <<normVars, scoreVars, storeVars, runVars, ideaVars, apiVars, moreVars>>

\* the await of clusterNarratives ends: runAnalysis rejects with what it threw, or
\* scores the narratives and calls generateBuildIdeas
ClassifierSettles(call) ==
  /\ anPc = "clustering"
  /\ anCluster' = call
  /\ LET r == clusterNarratives(call)
     IN  IF r.threw
         THEN /\ anPc' = "rejected"
              /\ anFailure' = "classifier"
              /\ UNCHANGED ideaVars
         ELSE /\ anPc' = "enriching"
              /\ biIn' = scoreNarratives(r.narratives, anSignals)
              /\ biPc' = "calling"
              /\ biEnriched' = <<>>
              /\ biLog' = <<>>
              /\ UNCHANGED anFailure
  /\ UNCHANGED <<anSignals, anRet, fullPc>>
  /\ UNCHANGED <<normVars, scoreVars, storeVars, runVars, apiVars, moreVars>>

\* AnalysisSaves without the await of generateBuildIdeas: saveNarratives is called with
\* what has been enriched so far
AnalysisSaves_NoAwait ==
  /\ anPc = "enriching"
  /\ biPc \in {"calling", "delay", "returned"}
  /\ svPc = "idle"
  /\ anPc' = "saving"
  /\ svPc' = "immutable"
  /\ svKind' = "narratives"
  /\ svName' = SnapshotName("narratives", clock)
  /\ svData' = NarrativesData(biEnriched, getSignalStats(anSignals), clock)
  /\ UNCHANGED <<dir, clock, svLog>>
  /\ UNCHANGED <<anSignals, anCluster, anRet, anFailure, fullPc>>
  /\ UNCHANGED <<normVars, scoreVars, runVars, ideaVars, apiVars, moreVars>>

\* generateBuildIdeas has returned: saveNarratives(narratives, stats) up to its first
\* write
AnalysisSaves ==
  /\ anPc = "enriching"
  /\ biPc = "returned"
  /\ svPc = "idle"
  /\ anPc' = "saving"
  /\ svPc' = "immutable"
  /\ svKind' = "narratives"
  /\ svName' = SnapshotName("narratives", clock)
  /\ svData' = NarrativesData(biEnriched, getSignalStats(anSignals), clock)
  /\ UNCHANGED <<dir, clock, svLog>>
  /\ UNCHANGED <<anSignals, anCluster, anRet, anFailure, fullPc>>
  /\ UNCHANGED <<normVars, scoreVars, runVars, ideaVars, apiVars, moreVars>>

\* saveNarratives has returned or thrown: runAnalysis returns { narratives, stats } or
\* rejects with what saveNarratives threw
AnalysisReturns ==
  /\ anPc = "saving"
  /\ svPc = "idle"
  /\ IF svLog[Len(svLog)].returned
     THEN /\ anPc' = "returned"
          /\ anRet' = [narratives |-> svData.narratives, stats |-> svData.stats]
          /\ UNCHANGED anFailure
     ELSE /\ anPc' = "rejected"
          /\ anFailure' = "storage"
          /\ UNCHANGED anRet
  /\ UNCHANGED <<anSignals, anCluster, fullPc>>
  /\ UNCHANGED <<normVars, scoreVars, storeVars, runVars, ideaVars, apiVars, moreVars>>

\* the run the endpoint awaits, as the handler sees it
AwaitedRun ==
  CASE req = "collect" ->
         [ done |-> pc \in {"returned", "rejected"}, rejected |-> pc = "rejected",
           message |-> failure,
           signals |-> IF pc = "returned" THEN ret.signals ELSE <<>>,
           narratives |-> <<>> ]
    [] req = "analyze" ->
         [ done |-> anPc \in {"returned", "rejected"}, rejected |-> anPc = "rejected",
           message |-> anFailure,
           signals |-> <<>>,
           narratives |-> IF anPc = "returned" THEN anRet.narratives ELSE <<>> ]
    [] OTHER ->
         [ done |-> fullPc \in {"returned", "rejected"}, rejected |-> fullPc = "rejected",
           message |-> IF pc = "rejected" THEN failure ELSE anFailure,
           signals |-> IF pc = "returned" THEN ret.signals ELSE <<>>,
           narratives |-> IF anPc = "returned" THEN anRet.narratives ELSE <<>> ]

\* the await in the handler ends and the response is sent
ApiResponds ==
  /\ req # "none"
  /\ res = NoData
  /\ AwaitedRun.done
  /\ res' = Respond(req, AwaitedRun)
  /\ UNCHANGED <<req, startDir>>
  /\ UNCHANGED <<normVars, scoreVars, storeVars, runVars, ideaVars, analysisVars, moreVars>>

NextRun ==
  \/ PostCollect
  \/ PostAnalyze
  \/ PostFullRun
  \/ \E c \in SettleCases : AdaptersSettle(c)
  \/ JoinAndNormalize
  \/ \E outcome \in WriteOutcomes : WriteImmutable(outcome)
  \/ \E outcome \in WriteOutcomes : WriteLatest(outcome)
  \/ CollectionReturns
  \/ FullRunAnalyzes
  \/ FullRunRejects
  \/ FullRunReturns
  \/ \E call \in ClusterCalls : ClassifierSettles(call)
  \/ \E call \in IdeaCalls : IdeaCallSettles(call)
  \/ DelayEnds
  \/ BuildIdeasReturns
  \/ AnalysisSaves
  \/ AnalysisReturns
  \/ ApiResponds
  \/ Tick

SpecRun == InitRun /\ [][NextRun]_vars

(***************************************************************************)
(* Claims on runAnalysis, runFull and the trigger endpoints (SpecRun)      *)
(***************************************************************************)

\* the classifier call threw, or returned something without an array of narratives
ClusterCallFailed(call) ==
  \/ call.threw
  \/ call.result.t # "object"
  \/ call.result.narratives.t # "array"

\* C11: when the call of the classifier throws or returns a value without a
\* narratives array, runAnalysis goes on with zero narratives: it does not reject
\* because of the classifier, and what it returns has no narratives
C11_ClassifierFailureGivesNone ==
  (anCluster # NoData /\ ClusterCallFailed(anCluster)) =>
    /\ anFailure # "classifier"
    /\ anPc \in {"enriching", "saving"} => biIn = <<>>
    /\ anPc = "returned" => anRet.narratives = <<>>

\* a save of the kind has thrown
SaveThrew(kind) ==
  \E i \in 1..Len(svLog) : svLog[i].kind = kind /\ ~svLog[i].returned

\* C12: a run whose saveSignals or saveNarratives threw does not return: it rejects
\* with the storage error, runFull rejects with it, and the trigger endpoint answers
\* with status 500, success false and the error message
C12_WriteErrorIsFatal ==
  /\ (SaveThrew("signals") /\ pc # "saving") => (pc = "rejected" /\ failure = "storage")
  /\ (SaveThrew("narratives") /\ anPc # "saving") =>
       (anPc = "rejected" /\ anFailure = "storage")
  /\ (SaveThrew("signals") \/ SaveThrew("narratives")) => fullPc # "returned"
  /\ ((SaveThrew("signals") \/ SaveThrew("narratives")) /\ res # NoData) =>
       (res.status = 500 /\ ~res.success /\ res.message = "storage")

\* C12 witness: in a full run the signals were saved and the write of the narratives
\* latest alias threw; the endpoint answered with the error
C12_Witness ==
  /\ req = "full-run"
  /\ ~SaveThrew("signals")
  /\ SaveThrew("narratives")
  /\ LatestName("narratives") \notin DOMAIN dir
  /\ fullPc = "rejected"
  /\ res # NoData
  /\ ~res.success

\* the run the endpoint started was aborted
RunAborted ==
  \/ req = "collect" /\ pc = "rejected"
  \/ req = "analyze" /\ anPc = "rejected"
  \/ req = "full-run" /\ fullPc = "rejected"

\* C13: when a run is aborted the data directory is as it was when the run started:
\* the run has written no snapshot file and has not touched a latest alias
C13_AbortWritesNothing ==
  RunAborted => dir = startDir

\* the saves of the run so far, by kind, in the order in which they ended
SavedKinds == [i \in 1..Len(svLog) |-> svLog[i].kind]

\* C26: in a runFull execution the stages happen in the order: all adapters settled,
\* normalizeAll, save of the signals snapshot, clusterNarratives, scoreNarratives,
\* generateBuildIdeas, save of the narratives snapshot.  No stage starts before the
\* one before it has completed, and the narratives snapshot is not written before
\* the signals snapshot of the run
C26_StagesInOrder ==
  req = "full-run" =>
    /\ (pc \in {"saving", "returned"} \/ failure = "storage") =>
         /\ \A a \in Adapters : settled[a].status # "pending"
         /\ Len(svLog) = 0 =>
              svData.signals = normalizeAll(Accumulate(JoinResults(settled, settleOrder)),
                                            svData.timestamp)
    /\ anPc # "idle" =>
         /\ pc = "returned"
         /\ Len(svLog) >= 1
         /\ svLog[1].kind = "signals"
         /\ svLog[1].returned
         /\ SnapshotName("signals", svLog[1].data.timestamp) \in DOMAIN dir
    /\ biPc # "idle" =>
         /\ anCluster # NoData
         /\ biIn = scoreNarratives(clusterNarratives(anCluster).narratives, anSignals)
    /\ (anPc \in {"saving", "returned"} \/ anFailure = "storage") =>
         /\ biPc = "returned"
         /\ Len(biEnriched) = Len(biIn)
    /\ \A j \in 1..Len(svLog) :
         svLog[j].kind = "narratives" =>
           /\ j = 2
           /\ svLog[j].data.narratives = biEnriched

\* C26 witness: a full run went through all its stages: three adapters fulfilled,
\* the signals were saved, the classifier gave two narratives, both were enriched and
\* the narratives were saved
C26_Witness ==
  /\ req = "full-run"
  /\ fullPc = "returned"
  /\ Len(ret.signals) > 0
  /\ Len(biEnriched) = 2
  /\ SavedKinds = <<"signals", "narratives">>
  /\ svLog[2].returned

\* C29: runAnalysis called without signals while there is no readable latest signals
\* record returns { narratives: [], stats: {} }; the classifier, the scorer and the
\* enricher are not called and the data directory stays as it was: no narratives
\* snapshot is written and the narratives latest alias is not touched
C29_NoSignalsNoAnalysis ==
  (req = "analyze" /\ loadLatest(startDir, "signals") = NoData) =>
    /\ anPc = "returned"
    /\ anRet = [narratives |-> <<>>, stats |-> <<>>]
    /\ anCluster = NoData
    /\ biPc = "idle"
    /\ biIn = <<>>
    /\ svPc = "idle"
    /\ svLog = <<>>
    /\ dir = startDir
    /\ LatestName("narratives") \notin DOMAIN dir
    /\ SnapshotNames(dir, "narratives") = {}

\* C29 witness: the signals latest alias is there and does not parse; the endpoint
\* has answered with zero narratives
C29_Witness ==
  /\ req = "analyze"
  /\ LatestName("signals") \in DOMAIN startDir
  /\ loadLatest(startDir, "signals") = NoData
  /\ anPc = "returned"
  /\ res # NoData
  /\ res.success
  /\ res.narrativeCount = 0


(***************************************************************************)
(* cron/scheduler.js: startCron and stopCron                               *)
(*                                                                         *)
(* A task is what cron.schedule returns: it has an identity and the job it *)
(* runs.  The scheduler state is the two module variables and the set of   *)
(* tasks node-cron keeps scheduled.                                        *)
(***************************************************************************)

\* the number of calls of startCron and stopCron
MaxCronCalls == 6

\* a task handle
Task(id, job) == [t |-> "task", id |-> id, job |-> job]

\* stopCron(): each handle that is set is stopped and set to null
stopCron(st) ==
  [ collectionCron |-> JNull,
    analysisCron   |-> JNull,
    scheduled      |-> (st.scheduled \ (IF Truthy(st.collectionCron) THEN {st.collectionCron} ELSE {}))
                         \ (IF Truthy(st.analysisCron) THEN {st.analysisCron} ELSE {}) ]

\* the two calls of cron.schedule in startCron; id is the identity of the first task
Schedule(st, id) ==
  [ collectionCron |-> Task(id, "collection"),
    analysisCron   |-> Task(id + 1, "analysis"),
    scheduled      |-> st.scheduled \cup {Task(id, "collection"), Task(id + 1, "analysis")} ]

\* startCron without its first statement, the call of stopCron
startCron_NoStop(st, id) == Schedule(st, id)

\* startCron(): stopCron(), then the two jobs are scheduled
startCron(st, id) == Schedule(stopCron(st), id)

\* the scheduler state
CronState ==
  [collectionCron |-> collectionCron, analysisCron |-> analysisCron, scheduled |-> scheduled]

\* the identity the next task gets: tasks are numbered as they are created
NextTaskId == 2 * Len(SelectSeq(cronLog, LAMBDA c : c = "start")) + 1

StartCronCall ==
  /\ Len(cronLog) < MaxCronCalls
  /\ LET st == startCron(CronState, NextTaskId)
     IN  /\ collectionCron' = st.collectionCron
         /\ analysisCron' = st.analysisCron
         /\ scheduled' = st.scheduled
  /\ cronLog' = Append(cronLog, "start")
  /\ UNCHANGED <<normVars, scoreVars, storeVars, runVars, callVars, jsonVars>>

StopCronCall ==
  /\ Len(cronLog) < MaxCronCalls
  /\ LET st == stopCron(CronState)
     IN  /\ collectionCron' = st.collectionCron
         /\ analysisCron' = st.analysisCron
         /\ scheduled' = st.scheduled
  /\ cronLog' = Append(cronLog, "stop")
  /\ UNCHANGED <<normVars, scoreVars, storeVars, runVars, callVars, jsonVars>>

InitCron ==
  /\ InitCronVars
  /\ InitJsonVars
  /\ InitNormVars
  /\ InitScoreVars
  /\ InitStoreVars
  /\ InitRunVars
  /\ InitCallVars

NextCron ==
  \/ StartCronCall
  \/ StopCronCall

SpecCron == InitCron /\ [][NextCron]_vars

\* the scheduled tasks that run the job
ScheduledFor(job) == { task \in scheduled : task.job = job }

\* C30: after any sequence of startCron and stopCron calls at most one collection job
\* and at most one analysis job are scheduled; after startCron exactly the two jobs it
\* created are scheduled, and after stopCron, the second of two in a row included,
\* no job is scheduled and both handles are null
C30_AtMostOneJobEach ==
  /\ Cardinality(ScheduledFor("collection")) <= 1
  /\ Cardinality(ScheduledFor("analysis")) <= 1
  /\ (cronLog # <<>> /\ cronLog[Len(cronLog)] = "start") =>
       scheduled = {collectionCron, analysisCron}
  /\ (cronLog # <<>> /\ cronLog[Len(cronLog)] = "stop") =>
       (scheduled = {} /\ collectionCron = JNull /\ analysisCron = JNull)

\* C30 witness: startCron was called twice in a row and later stopCron twice in a row
C30_Witness ==
  /\ Len(cronLog) >= 4
  /\ \E i \in 1..(Len(cronLog) - 1) : cronLog[i] = "start" /\ cronLog[i + 1] = "start"
  /\ cronLog[Len(cronLog) - 1] = "stop"
  /\ cronLog[Len(cronLog)] = "stop"
  /\ scheduled = {}

=============================================================================
